---- MODULE Spec2Model ----
(***************************************************************************)
(* EngineBridge (apps/desktop/src/main/engine-bridge/index.ts): the        *)
(* supervisor of one external conversion process.  One job is run on one   *)
(* bridge; the host runtime serialises the callbacks, so every handler is  *)
(* one atomic action, and the only suspension points are the `await`s of   *)
(* finishJob (manifest read) and killProcessTree (grace sleep, taskkill).  *)
(***************************************************************************)
EXTENDS Integers, Sequences, FiniteSets, TLC

VARIABLES
  platform,      \* process.platform: "posix" or "win32"
  started,       \* run() has been called
  runJobId,      \* the jobId captured by the closures of run()
  activeJobs,    \* keys of the activeJobs map (each maps to rec)
  rec,           \* the ActiveJob record created by run()
  timer,         \* the setTimeout of the timeout watcher
  fin,           \* the finishJob calls suspended in await readResultManifest
  child,         \* the spawned child: processRef and the OS process behind it
  desc,          \* a process spawned by the child (same process group)
  kill,          \* the killProcessTree run in flight
  errorDelivered,\* the child's "error" callback has run
  closeDelivered,\* the child's "close" callback has run
  events,        \* what the event sink (onEvent) has received, in order
  resolveCalls,  \* number of calls of activeJob.resolve
  result,        \* the value the result promise resolved with
  stdoutText,    \* every stdout chunk the child delivered, concatenated
  nChunks,       \* number of stdout chunks delivered
  cancelCalls,   \* number of cancel() calls made
  lastCancel,    \* the last cancel() call: its argument and return value
  cancelAccepted, \* some cancel() call returned true
  request,       \* the request run() was called with
  spawnArgs,     \* the argument list run() handed to spawnProcess
  killRuns,      \* number of killProcessTree calls made
  signals,       \* the signals killProcessTree has issued, in order
  now,           \* milliseconds elapsed since run()
  timerDue,      \* the delay run() gave to the setTimeout of the watcher
  mjobs,         \* two jobs on one bridge: the state of each, by job id
  preflight,     \* the buildPreflightPolicy call: its position, its env object, its outcome
  dup,           \* two run() calls with one job id: the map entry and each call's job
  view           \* the renderer: its variables and the messages on their way to it

vars == <<platform, started, runJobId, activeJobs, rec, timer, fin, child, desc,
          kill, errorDelivered, closeDelivered, events, resolveCalls, result,
          stdoutText, nChunks, cancelCalls, lastCancel, cancelAccepted,
          request, spawnArgs, killRuns, signals, now, timerDue, mjobs,
          preflight, dup, view>>

----------------------------------------------------------------------------
\* Bounds of the model.
MaxChunks == 2
MaxCancels == 2
\* Longest stdout text whose cuts into chunks are enumerated.
MaxTextLen == 5
\* Largest exit code of the child in the exit-code specification.
MaxExitCode == 6
\* Number of clock ticks of the timed specification.
MaxTicks == 4
\* Longest stdout text of a job of the two-job bridge.
MaxMultiText == 2

\* null / undefined, and a present value, of a nullable field.
Null == <<>>
Some(x) == <<x>>

\* The ids cancel() is called with, and the one the job is run under.
JobIds == {"job-a", "job-b"}
RunJobIds == {"job-a"}
Platforms == {"posix", "win32"}

\* Exit codes a child may exit with on its own.
ExitCodes == {0, 2, 4}
\* The code Node reports on close after a failed spawn (a negative errno).
SpawnFailCode == 0 - 2
\* The exit code of a process ended by taskkill /F.
TaskkillExitCode == 1

KILL_TREE_ESCALATION_MS == 750

\* request.timeoutMs: omitted, zero, positive.
TimeoutInputs == {Null, Some(0), Some(300)}

\* Characters of the child's stdout: digits (a line of digits is JSON), a
\* character that no JSON text holds, blank, and the two line-break characters.
LF == "LF"
CR == "CR"
SP == "SP"
Chars == {"1", "2", "x", SP, CR, LF}
Digits == {"1", "2"}
Whitespace == {SP, CR, LF}

\* The stdout chunks the child writes in the lifecycle specification.
Chunks == { <<"1", CR, LF, "2">>, <<LF, "x", LF>> }

ManifestStatuses == {"succeeded", "failed", "cancelled", "timeout"}
\* errorCode of a manifest: null or absent, the empty string, a code.
ManifestErrorCodes == {Null, Some(""), Some("E_INVALID_INPUT")}
\* What readResultManifest returns: null, or the parsed result.json.
Manifests == {Null} \cup
  { Some([status |-> s, errorCode |-> e]) : s \in ManifestStatuses, e \in ManifestErrorCodes }

\* randomUUID() results.
UUIDs == {"uuid-1", "uuid-2"}
\* A request with a job id and a timeout, every other optional field omitted.
RequestOf(jobId, timeoutMs) ==
  [inputPath |-> "in.pdf", outputDir |-> "out", jobId |-> jobId, backend |-> Null,
   method |-> Null, lang |-> Null, start |-> Null, end |-> Null, timeoutMs |-> timeoutMs]
\* The requests of the lifecycle model.
Requests == {RequestOf(Some(j), t) : j \in RunJobIds, t \in TimeoutInputs}

TerminalStates == {"succeeded", "failed", "cancelled"}

----------------------------------------------------------------------------
\* mapExitCodeToErrorCode with the last entry of the table missing.
mapExitCodeToErrorCodeShort(exitCode) ==
  IF exitCode = Null THEN "E_ENGINE_FAILED"
  ELSE CASE exitCode[1] = 1 -> "E_ENGINE_FAILED"
         [] exitCode[1] = 2 -> "E_INVALID_INPUT"
         [] exitCode[1] = 3 -> "E_OUTPUT_UNWRITABLE"
         [] exitCode[1] = 4 -> "E_CANCELLED"
         [] OTHER -> "E_ENGINE_FAILED"

\* EXIT_CODE_ERROR_MAP and mapExitCodeToErrorCode.
mapExitCodeToErrorCode(exitCode) ==
  IF exitCode = Null THEN "E_ENGINE_FAILED"
  ELSE CASE exitCode[1] = 1 -> "E_ENGINE_FAILED"
         [] exitCode[1] = 2 -> "E_INVALID_INPUT"
         [] exitCode[1] = 3 -> "E_OUTPUT_UNWRITABLE"
         [] exitCode[1] = 4 -> "E_CANCELLED"
         [] exitCode[1] = 5 -> "E_TIMEOUT"
         [] OTHER -> "E_ENGINE_FAILED"

\* emitState: the event handed to onEvent.
Event(state, progressEvent, errorCode) ==
  [state |-> state, progressEvent |-> progressEvent, errorCode |-> errorCode]

NewActiveJob ==
  [requestedCancel |-> FALSE, timedOut |-> FALSE, settled |-> FALSE,
   runningEmitted |-> FALSE, timeoutRef |-> FALSE, killTreeRef |-> FALSE,
   stdoutRemainder |-> <<>>]

\* emitRunningOnce without the runningEmitted guard.
emitRunningAlways(jobId, aj, r, ev) ==
  IF jobId \notin aj
  THEN [rec |-> r, events |-> ev]
  ELSE [rec |-> [r EXCEPT !.runningEmitted = TRUE],
        events |-> Append(ev, Event("running", Null, Null))]

\* emitRunningOnce emitting only from the stdout handler, not from run().
emitRunningOnStdout(jobId, aj, r, ev) ==
  IF jobId \notin aj \/ r.runningEmitted \/ ~started
  THEN [rec |-> r, events |-> ev]
  ELSE [rec |-> [r EXCEPT !.runningEmitted = TRUE],
        events |-> Append(ev, Event("running", Null, Null))]

\* emitRunningOnce that does not record that it has emitted.
emitRunningOnceUnrecorded(jobId, aj, r, ev) ==
  IF jobId \notin aj \/ r.runningEmitted
  THEN [rec |-> r, events |-> ev]
  ELSE [rec |-> r, events |-> Append(ev, Event("running", Null, Null))]

\* emitRunningOnce(jobId): the record and the sink afterwards.
emitRunningOnce(jobId, aj, r, ev) ==
  IF jobId \notin aj \/ r.runningEmitted
  THEN [rec |-> r, events |-> ev]
  ELSE [rec |-> [r EXCEPT !.runningEmitted = TRUE],
        events |-> Append(ev, Event("running", Null, Null))]

----------------------------------------------------------------------------
\* consumeStdout: split on /\r?\n/, trim, JSON.parse.

RECURSIVE SplitFrom(_, _, _)
\* buf.split(/\r?\n/) from character i on, cur being the piece collected so far.
SplitFrom(buf, i, cur) ==
  IF i > Len(buf) THEN <<cur>>
  ELSE IF buf[i] = LF
       THEN LET line == IF Len(cur) > 0 /\ cur[Len(cur)] = CR
                        THEN SubSeq(cur, 1, Len(cur) - 1) ELSE cur
            IN <<line>> \o SplitFrom(buf, i + 1, <<>>)
       ELSE SplitFrom(buf, i + 1, Append(cur, buf[i]))

SplitLines(buf) == SplitFrom(buf, 1, <<>>)

RECURSIVE TrimLeft(_)
TrimLeft(s) == IF Len(s) > 0 /\ s[1] \in Whitespace THEN TrimLeft(Tail(s)) ELSE s

RECURSIVE TrimRight(_)
TrimRight(s) ==
  IF Len(s) > 0 /\ s[Len(s)] \in Whitespace THEN TrimRight(SubSeq(s, 1, Len(s) - 1)) ELSE s

Trim(s) == TrimRight(TrimLeft(s))

\* JSON.parse succeeds: over Chars, exactly the non-empty digit strings.
JsonParses(s) == Len(s) > 0 /\ \A i \in 1..Len(s) : s[i] \in Digits

RECURSIVE ProgressOf(_)
\* The progress events of the complete lines, in order.
ProgressOf(lines) ==
  IF lines = <<>> THEN <<>>
  ELSE LET trimmed == Trim(Head(lines))
       IN (IF trimmed # <<>> /\ JsonParses(trimmed)
           THEN <<Event("running", Some(trimmed), Null)>> ELSE <<>>)
          \o ProgressOf(Tail(lines))

\* consumeStdout decoding each chunk on its own, the remainder not carried over.
consumeStdoutPerChunk(jobId, chunk, aj, r, ev) ==
  IF jobId \notin aj THEN [rec |-> r, events |-> ev]
  ELSE LET pieces == SplitLines(chunk)
           lines == SubSeq(pieces, 1, Len(pieces) - 1)
       IN [rec |-> [r EXCEPT !.stdoutRemainder = pieces[Len(pieces)]],
           events |-> ev \o ProgressOf(lines)]

\* consumeStdout taking a line that fails to parse as a request to cancel.
consumeStdoutMalformedCancels(jobId, chunk, aj, r, ev) ==
  IF jobId \notin aj THEN [rec |-> r, events |-> ev]
  ELSE LET nextBuffer == r.stdoutRemainder \o chunk
           pieces == SplitLines(nextBuffer)
           lines == SubSeq(pieces, 1, Len(pieces) - 1)
           malformed == \E i \in 1..Len(lines) :
                          Trim(lines[i]) # <<>> /\ ~JsonParses(Trim(lines[i]))
       IN [rec |-> [r EXCEPT !.stdoutRemainder = pieces[Len(pieces)],
                             !.requestedCancel = @ \/ malformed],
           events |-> ev \o ProgressOf(lines)]

\* consumeStdout(jobId, chunk): the record and the sink afterwards.
consumeStdout(jobId, chunk, aj, r, ev) ==
  IF jobId \notin aj THEN [rec |-> r, events |-> ev]
  ELSE LET nextBuffer == r.stdoutRemainder \o chunk
           pieces == SplitLines(nextBuffer)
           lines == SubSeq(pieces, 1, Len(pieces) - 1)
       IN [rec |-> [r EXCEPT !.stdoutRemainder = pieces[Len(pieces)]],
           events |-> ev \o ProgressOf(lines)]

----------------------------------------------------------------------------
NoChild == [pidValid |-> FALSE, alive |-> FALSE, exitCode |-> Null]
\* A job of the two-job bridge before run(): its ActiveJob record, whether
\* the map holds it, its timer, terminator, child, suspended finishJob, sink
\* history, result and stdout.
NewMultiJob ==
  [started |-> FALSE, inMap |-> FALSE, rec |-> NewActiveJob, timer |-> "none",
   killing |-> FALSE, child |-> NoChild, fin |-> Null, closeDelivered |-> FALSE,
   events |-> <<>>, result |-> Null, stdoutText |-> <<>>]
NoKill == [phase |-> "idle", path |-> "none"]

\* buildPreflightPolicy has not been called.  env0 is the env object as the
\* caller passed it, env the same object now; checked and passed record the
\* ensureDirectoryWritable calls made and how each ended.
NoPreflight ==
  [pc |-> "idle", env0 |-> Null, env |-> Null, checked |-> <<>>, passed |-> <<>>,
   error |-> Null, policy |-> Null]

\* The two run() calls made with one job id, in the order of the calls.
DupCalls == {1, 2}

\* What belongs to one of the two calls: its child, the suspended finishJob of
\* its exit callback (rec: the call whose record it holds), its terminator
\* run, what its onEvent received and what its promise resolved with.
NewDupCall ==
  [started |-> FALSE, child |-> NoChild, closeDelivered |-> FALSE, killing |-> FALSE,
   fin |-> Null, events |-> <<>>, result |-> Null]

\* No run() call has been made on the bridge of the shared job id.  slot is
\* the call whose record the map holds under the id (0: no entry); recs are
\* the records the calls created.
NoDup ==
  [slot |-> 0, recs |-> [k \in DupCalls |-> NewActiveJob],
   calls |-> [k \in DupCalls |-> NewDupCall]]

\* The renderer after its module has been evaluated, with an input file and
\* an output folder picked, and the main process with no job.  invokes: runJob
\* calls on their way to the main process; replies and jobEvents: messages on
\* their way to the renderer; jobs: ids the main process has given out;
\* terminalDelivered: jobs whose terminal event the renderer has received.
NoView ==
  [runningJobId |-> Null, terminalState |-> Null,
   invokes |-> 0, replies |-> <<>>, jobEvents |-> <<>>,
   jobs |-> 0, ended |-> {}, terminalDelivered |-> {}]

Init ==
  /\ platform \in Platforms
  /\ started = FALSE
  /\ runJobId = Null
  /\ activeJobs = {}
  /\ rec = NewActiveJob
  /\ timer = "none"
  /\ fin = <<>>
  /\ child = NoChild
  /\ desc = "none"
  /\ kill = NoKill
  /\ errorDelivered = FALSE
  /\ closeDelivered = FALSE
  /\ events = <<>>
  /\ resolveCalls = 0
  /\ result = Null
  /\ stdoutText = <<>>
  /\ nChunks = 0
  /\ cancelCalls = 0
  /\ lastCancel = Null
  /\ cancelAccepted = FALSE
  /\ request = Null
  /\ spawnArgs = <<>>
  /\ killRuns = 0
  /\ signals = <<>>
  /\ now = 0
  /\ timerDue = Null
  /\ mjobs = [j \in JobIds |-> NewMultiJob]
  /\ preflight = NoPreflight
  /\ dup = NoDup
  /\ view = NoView

\* request.lang is truthy: neither omitted nor the empty string.
LangGiven(req) == req.lang # Null /\ req.lang # Some("")

\* The args of run() with a flag for every field that is present, the empty
\* language included, and none for an omitted method.
buildArgsGivenOnly(req, jobId) ==
  <<"--input", req.inputPath, "--output", req.outputDir, "--job-id", jobId,
    "--backend", IF req.backend = Null THEN "pipeline" ELSE req.backend[1]>>
  \o (IF req.method # Null THEN <<"--method", req.method[1]>> ELSE <<>>)
  \o <<"--jsonl">>
  \o (IF req.timeoutMs # Null THEN <<"--timeout-ms", ToString(req.timeoutMs[1])>> ELSE <<>>)
  \o (IF req.lang # Null THEN <<"--lang", req.lang[1]>> ELSE <<>>)
  \o (IF req.start # Null THEN <<"--start", ToString(req.start[1])>> ELSE <<>>)
  \o (IF req.end # Null THEN <<"--end", ToString(req.end[1])>> ELSE <<>>)

\* The args run() builds for the child; commandPrefixArgs is empty.
buildArgs(req, jobId) ==
  LET backend == IF req.backend = Null THEN "pipeline" ELSE req.backend[1]
      method == IF req.method = Null THEN "auto" ELSE req.method[1]
  IN <<"--input", req.inputPath, "--output", req.outputDir, "--job-id", jobId,
       "--backend", backend, "--method", method, "--jsonl">>
     \o (IF req.timeoutMs # Null THEN <<"--timeout-ms", ToString(req.timeoutMs[1])>> ELSE <<>>)
     \o (IF LangGiven(req) THEN <<"--lang", req.lang[1]>> ELSE <<>>)
     \o (IF req.start # Null THEN <<"--start", ToString(req.start[1])>> ELSE <<>>)
     \o (IF req.end # Null THEN <<"--end", ToString(req.end[1])>> ELSE <<>>)

\* The delay of the timeout watcher with the escalation grace left out.
watcherDelayNoGrace(timeoutMs) == timeoutMs

\* The delay of the timeout watcher: request.timeoutMs + KILL_TREE_ESCALATION_MS.
watcherDelay(timeoutMs) == timeoutMs + KILL_TREE_ESCALATION_MS

\* The watcher armed for every timeoutMs that is a number.
watcherArmedForAnyNumber(timeoutMs) == timeoutMs # Null

\* The condition under which run() arms the watcher:
\* typeof request.timeoutMs === "number" && request.timeoutMs > 0.
watcherArmed(timeoutMs) == timeoutMs # Null /\ timeoutMs[1] > 0

\* run(request, onEvent): spawn, record the job, emit queued and running, arm
\* the timeout watcher.  spawnOk: whether the spawn produced a process.
\* uuid: what randomUUID() returns when it is called.
run(req, uuid, spawnOk) ==
  /\ ~started
  /\ started' = TRUE
  /\ request' = Some(req)
  /\ LET jobId == IF req.jobId = Null THEN uuid ELSE req.jobId[1]
         timeoutMs == req.timeoutMs
         queued == Append(events, Event("queued", Null, Null))
         e == emitRunningOnce(jobId, activeJobs', NewActiveJob, queued)
         armed == watcherArmed(timeoutMs)
     IN /\ runJobId' = Some(jobId)
        /\ spawnArgs' = buildArgs(req, jobId)
        /\ activeJobs' = activeJobs \cup {jobId}
        /\ rec' = [e.rec EXCEPT !.timeoutRef = armed]
        /\ events' = e.events
        /\ timer' = IF armed THEN "armed" ELSE "none"
        /\ timerDue' = IF armed THEN Some(watcherDelay(timeoutMs[1])) ELSE Null
  /\ child' = [pidValid |-> spawnOk, alive |-> spawnOk, exitCode |-> Null]
  /\ UNCHANGED <<preflight, dup, view, mjobs, now, killRuns, signals, platform, fin, desc, kill, errorDelivered, closeDelivered,
                 resolveCalls, result, stdoutText, nChunks, cancelCalls, lastCancel, cancelAccepted>>

----------------------------------------------------------------------------
\* The process tree.  A signal sent to a process: SIGKILL ends it; SIGTERM
\* ends it by the signal, or its handler exits with a code, or it is ignored.
\* processRef.exitCode is set when the process exits with a code and stays
\* null when it is ended by a signal.
Deliver(c, signal) ==
  IF ~c.alive THEN {c}
  ELSE IF signal = "SIGKILL" THEN {[c EXCEPT !.alive = FALSE]}
  ELSE {c, [c EXCEPT !.alive = FALSE]}
       \cup {[c EXCEPT !.alive = FALSE, !.exitCode = Some(x)] : x \in ExitCodes}

DeliverDesc(d, signal) ==
  IF d # "alive" THEN {d}
  ELSE IF signal = "SIGKILL" THEN {"dead"}
  ELSE {"alive", "dead"}

\* killPosixProcessTree(pid, signal): process.kill(-pid) reaches the group
\* while it has a member, else process.kill(pid) reaches the child, else false.
killPosixProcessTree(c, d, signal) ==
  IF c.alive \/ d = "alive"
  THEN [sent |-> TRUE, child |-> Deliver(c, signal), desc |-> DeliverDesc(d, signal)]
  ELSE [sent |-> FALSE, child |-> {c}, desc |-> {d}]

\* A signal issued by the terminator.  sent: it reached a process;
\* childAlive: the child was still running when it was issued.
Signal(signal, sent, childAlive) ==
  [signal |-> signal, sent |-> sent, childAlive |-> childAlive]

\* sendSignal(processRef, signal): processRef.kill reaches the child only.
sendSignal(c, signal) == Deliver(c, signal)

\* killProcessTree(processRef) up to its first await; r is the job's record.
\* A run that returns without awaiting has its finally callback run in the
\* same tick, so killTreeRef is unset again when the handler is left.
killProcessTree(r) ==
  /\ killRuns' = killRuns + 1
  /\ IF ~child.pidValid
     THEN /\ child' \in sendSignal(child, "SIGTERM")
          /\ signals' = Append(signals, Signal("SIGTERM", child.alive, child.alive))
          /\ desc' = desc
          /\ kill' = [phase |-> "sleeping", path |-> "handle"]
          /\ rec' = [r EXCEPT !.killTreeRef = TRUE]
     ELSE IF platform = "win32"
     THEN /\ kill' = [phase |-> "taskkill", path |-> "win32"]
          /\ rec' = [r EXCEPT !.killTreeRef = TRUE]
          /\ UNCHANGED <<child, desc, signals>>
     ELSE LET term == killPosixProcessTree(child, desc, "SIGTERM")
          IN /\ signals' = Append(signals, Signal("SIGTERM", term.sent, child.alive))
             /\ IF ~term.sent
                THEN rec' = r /\ UNCHANGED <<kill, child, desc>>
                ELSE /\ child' \in term.child
                     /\ desc' \in term.desc
                     /\ kill' = [phase |-> "sleeping", path |-> "posix"]
                     /\ rec' = [r EXCEPT !.killTreeRef = TRUE]

\* requestKillTree with the test of the terminator handle inverted.
requestKillTreeSkipsIdle(jobId, r) ==
  jobId \notin activeJobs \/ r.settled \/ ~r.killTreeRef

\* requestKillTree without the test of the terminator handle.
requestKillTreeSkipsSettledOnly(jobId, r) ==
  jobId \notin activeJobs \/ r.settled

\* The guard of requestKillTree.
requestKillTreeSkips(jobId, r) ==
  jobId \notin activeJobs \/ r.settled \/ r.killTreeRef

\* requestKillTree(jobId), r being the record as the caller left it.
requestKillTree(jobId, r) ==
  IF requestKillTreeSkips(jobId, r)
  THEN rec' = r /\ UNCHANGED <<kill, child, desc, killRuns, signals>>
  ELSE killProcessTree(r)

\* The finally callback of requestKillTree.
killTreeFinally(r) ==
  IF runJobId # Null /\ runJobId[1] \in activeJobs
  THEN [r EXCEPT !.killTreeRef = FALSE] ELSE r

\* killProcessTree after sleep(KILL_TREE_ESCALATION_MS).  The error callback
\* of a failed spawn is delivered on the next tick, long before the sleep ends.
KillTreeWake ==
  /\ kill.phase = "sleeping"
  /\ child.pidValid \/ errorDelivered
  /\ IF child.exitCode # Null
     THEN UNCHANGED <<child, desc, signals>>
     ELSE IF kill.path = "handle"
     THEN /\ child' \in sendSignal(child, "SIGKILL") /\ desc' = desc
          /\ signals' = Append(signals, Signal("SIGKILL", child.alive, child.alive))
     ELSE LET k == killPosixProcessTree(child, desc, "SIGKILL")
          IN /\ child' \in k.child /\ desc' \in k.desc
             /\ signals' = Append(signals, Signal("SIGKILL", k.sent, child.alive))
  /\ kill' = NoKill
  /\ killRuns' = killRuns
  /\ rec' = killTreeFinally(rec)
  /\ UNCHANGED <<preflight, dup, view, mjobs, now, timerDue, request, spawnArgs, platform, started, runJobId, activeJobs, timer, fin, errorDelivered,
                 closeDelivered, events, resolveCalls, result, stdoutText, nChunks,
                 cancelCalls, lastCancel, cancelAccepted>>

\* killWindowsProcessTree: taskkill /PID pid /T /F has closed.
TaskkillClose ==
  /\ kill.phase = "taskkill"
  /\ child' = IF child.alive
              THEN [child EXCEPT !.alive = FALSE, !.exitCode = Some(TaskkillExitCode)]
              ELSE child
  /\ desc' = IF desc = "alive" THEN "dead" ELSE desc
  /\ kill' = NoKill
  /\ rec' = killTreeFinally(rec)
  /\ UNCHANGED <<killRuns, signals, preflight, dup, view, mjobs, now, timerDue, request, spawnArgs, platform, started, runJobId, activeJobs, timer, fin, errorDelivered,
                 closeDelivered, events, resolveCalls, result, stdoutText, nChunks,
                 cancelCalls, lastCancel, cancelAccepted>>

----------------------------------------------------------------------------
\* cancel guarded by the map alone, without the settled flag.
cancelRejectsUnsettledOnly(jobId) == jobId \notin activeJobs

\* The guard of cancel.
cancelRejects(jobId) == jobId \notin activeJobs \/ rec.settled

\* cancel that settles the job itself instead of waiting for the child's exit.
cancelSettles(jobId) ==
  /\ cancelCalls < MaxCancels
  /\ cancelCalls' = cancelCalls + 1
  /\ IF cancelRejects(jobId)
     THEN /\ lastCancel' = Some([jobId |-> jobId, ret |-> FALSE])
          /\ UNCHANGED <<rec, fin, cancelAccepted>>
     ELSE /\ rec' = [rec EXCEPT !.requestedCancel = TRUE, !.settled = TRUE]
          /\ fin' = Append(fin, [exitCode |-> Null, spawnError |-> FALSE])
          /\ lastCancel' = Some([jobId |-> jobId, ret |-> TRUE])
          /\ cancelAccepted' = TRUE
  /\ UNCHANGED <<killRuns, signals, preflight, dup, view, mjobs, now, timerDue, request, spawnArgs, platform, started, runJobId, activeJobs, timer, kill, child, desc,
                 errorDelivered, closeDelivered, events, resolveCalls, result,
                 stdoutText, nChunks>>

\* cancel(jobId)
cancel(jobId) ==
  /\ cancelCalls < MaxCancels
  /\ cancelCalls' = cancelCalls + 1
  /\ IF cancelRejects(jobId)
     THEN /\ lastCancel' = Some([jobId |-> jobId, ret |-> FALSE])
          /\ UNCHANGED <<rec, kill, child, desc, cancelAccepted, killRuns, signals>>
     ELSE /\ requestKillTree(jobId, [rec EXCEPT !.requestedCancel = TRUE])
          /\ lastCancel' = Some([jobId |-> jobId, ret |-> TRUE])
          /\ cancelAccepted' = TRUE
  /\ UNCHANGED <<preflight, dup, view, mjobs, now, timerDue, request, spawnArgs, platform, started, runJobId, activeJobs, timer, fin, errorDelivered,
                 closeDelivered, events, resolveCalls, result, stdoutText, nChunks>>

\* The guard of the timeout watcher's callback.
timeoutSkips(jobId) == jobId \notin activeJobs \/ rec.settled

\* The callback of the timeout watcher recording the timeout as a cancel request.
TimeoutFireCancels ==
  /\ timer = "armed"
  /\ timer' = "fired"
  /\ IF timeoutSkips(runJobId[1])
     THEN UNCHANGED <<rec, kill, child, desc, killRuns, signals>>
     ELSE requestKillTree(runJobId[1], [rec EXCEPT !.requestedCancel = TRUE])
  /\ UNCHANGED <<preflight, dup, view, mjobs, now, timerDue, request, spawnArgs, platform, started, runJobId, activeJobs, fin, errorDelivered,
                 closeDelivered, events, resolveCalls, result, stdoutText, nChunks,
                 cancelCalls, lastCancel, cancelAccepted>>

\* The callback of the timeout watcher set by run().
TimeoutFire ==
  /\ timer = "armed"
  /\ timer' = "fired"
  /\ IF timeoutSkips(runJobId[1])
     THEN UNCHANGED <<rec, kill, child, desc, killRuns, signals>>
     ELSE requestKillTree(runJobId[1], [rec EXCEPT !.timedOut = TRUE])
  /\ UNCHANGED <<preflight, dup, view, mjobs, now, timerDue, request, spawnArgs, platform, started, runJobId, activeJobs, fin, errorDelivered,
                 closeDelivered, events, resolveCalls, result, stdoutText, nChunks,
                 cancelCalls, lastCancel, cancelAccepted>>

\* processRef.stdout.on("data")
StdoutData(chunk) ==
  /\ started
  /\ child.pidValid
  /\ ~closeDelivered
  /\ nChunks < MaxChunks
  /\ LET e == emitRunningOnce(runJobId[1], activeJobs, rec, events)
         c == consumeStdout(runJobId[1], chunk, activeJobs, e.rec, e.events)
     IN rec' = c.rec /\ events' = c.events
  /\ stdoutText' = stdoutText \o chunk
  /\ nChunks' = nChunks + 1
  /\ UNCHANGED <<killRuns, signals, preflight, dup, view, mjobs, now, timerDue, request, spawnArgs, platform, started, runJobId, activeJobs, timer, fin, child, desc, kill,
                 errorDelivered, closeDelivered, resolveCalls, result, cancelCalls, lastCancel, cancelAccepted>>

----------------------------------------------------------------------------
\* requestManifest?.status and requestManifest?.errorCode
ManifestStatus(m) == IF m = Null THEN Null ELSE Some(m[1].status)
ManifestErrorCode(m) == IF m = Null THEN Null ELSE m[1].errorCode
\* A string that is neither null, undefined nor empty.
Truthy(e) == e # Null /\ e # Some("")

\* Success decided by the exit code alone.
IsSucceededByExitCode(exitCode, m) == exitCode = Some(0)

\* The first branch of the reconciliation.
IsSucceeded(exitCode, m) ==
  exitCode = Some(0) /\ ManifestStatus(m) = Some("succeeded")

\* The second branch taken on a local cancel request only.
IsCancelledByRequestOnly(exitCode, m, r) == r.requestedCancel

\* The second branch.
IsCancelled(exitCode, m, r) ==
  r.requestedCancel \/ exitCode = Some(4) \/ ManifestStatus(m) = Some("cancelled")

\* errorCode of the cancelled branch without the fallback to E_CANCELLED.
CancelledErrorCodeNoFallback(m, r) ==
  IF r.requestedCancel THEN Some("E_CANCELLED") ELSE ManifestErrorCode(m)

\* errorCode of the cancelled branch.
CancelledErrorCode(m, r) ==
  IF r.requestedCancel THEN Some("E_CANCELLED")
  ELSE IF ManifestErrorCode(m) # Null THEN ManifestErrorCode(m)
  ELSE Some("E_CANCELLED")

\* errorCode of the failed branch with the manifest looked at before the
\* timeout flag.
FailedErrorCodeManifestFirst(exitCode, m, spawnError, r) ==
  IF Truthy(ManifestErrorCode(m)) THEN ManifestErrorCode(m)
  ELSE IF r.timedOut THEN Some("E_TIMEOUT")
  ELSE IF spawnError THEN Some("E_ENGINE_FAILED")
  ELSE Some(mapExitCodeToErrorCode(exitCode))

\* errorCode of the failed branch with a missing manifest reported as an
\* engine failure instead of falling through to the exit code.
FailedErrorCodeNeedsManifest(exitCode, m, spawnError, r) ==
  IF r.timedOut THEN Some("E_TIMEOUT")
  ELSE IF m = Null THEN Some("E_ENGINE_FAILED")
  ELSE IF Truthy(ManifestErrorCode(m)) THEN ManifestErrorCode(m)
  ELSE IF spawnError THEN Some("E_ENGINE_FAILED")
  ELSE Some(mapExitCodeToErrorCode(exitCode))

\* errorCode of the failed branch.
FailedErrorCode(exitCode, m, spawnError, r) ==
  IF r.timedOut THEN Some("E_TIMEOUT")
  ELSE IF Truthy(ManifestErrorCode(m)) THEN ManifestErrorCode(m)
  ELSE IF spawnError THEN Some("E_ENGINE_FAILED")
  ELSE Some(mapExitCodeToErrorCode(exitCode))

\* state and errorCode computed by finishJob.
Reconcile(exitCode, m, spawnError, r) ==
  IF IsSucceeded(exitCode, m) THEN [state |-> "succeeded", errorCode |-> Null]
  ELSE IF IsCancelled(exitCode, m, r)
  THEN [state |-> "cancelled", errorCode |-> CancelledErrorCode(m, r)]
  ELSE [state |-> "failed", errorCode |-> FailedErrorCode(exitCode, m, spawnError, r)]

\* finishJob guarded by the map alone, without the settled flag.
finishJobSkipsUnguarded(jobId) == jobId \notin activeJobs

\* finishJob with the test of the settled flag inverted.
finishJobSkipsUnsettled(jobId) == jobId \notin activeJobs \/ ~rec.settled

\* The guard of finishJob.
finishJobSkips(jobId) == jobId \notin activeJobs \/ rec.settled

\* finishJob up to its await, without clearTimeout.
finishJobKeepsTimer(jobId, exitCode, spawnError) ==
  IF finishJobSkips(jobId)
  THEN UNCHANGED <<rec, timer, fin>>
  ELSE /\ rec' = [rec EXCEPT !.settled = TRUE]
       /\ timer' = timer
       /\ fin' = Append(fin, [exitCode |-> exitCode, spawnError |-> spawnError])

\* finishJob(jobId, exitCode, onEvent, spawnError) up to its await.
finishJob(jobId, exitCode, spawnError) ==
  IF finishJobSkips(jobId)
  THEN UNCHANGED <<rec, timer, fin>>
  ELSE /\ rec' = [rec EXCEPT !.settled = TRUE]
       /\ timer' = IF rec.timeoutRef /\ timer = "armed" THEN "cleared" ELSE timer
       /\ fin' = Append(fin, [exitCode |-> exitCode, spawnError |-> spawnError])

RemoveAt(s, i) == SubSeq(s, 1, i - 1) \o SubSeq(s, i + 1, Len(s))

\* finishJob after readResultManifest, handing the manifest on only when the
\* job succeeded.
FinishJobResumeManifestOnSuccess(i, requestManifest) ==
  /\ i \in 1..Len(fin)
  /\ LET f == fin[i]
         out == Reconcile(f.exitCode, requestManifest, f.spawnError, rec)
     IN /\ events' = Append(events, Event(out.state, Null, out.errorCode))
        /\ result' = IF result # Null THEN result
                     ELSE Some([jobId |-> runJobId[1], state |-> out.state,
                                exitCode |-> f.exitCode, errorCode |-> out.errorCode,
                                manifest |-> IF out.state = "succeeded"
                                             THEN requestManifest ELSE Null])
  /\ activeJobs' = activeJobs \ {runJobId[1]}
  /\ resolveCalls' = resolveCalls + 1
  /\ fin' = RemoveAt(fin, i)
  /\ UNCHANGED <<killRuns, signals, preflight, dup, view, mjobs, now, timerDue, request, spawnArgs, platform, started, runJobId, rec, timer, child, desc, kill,
                 errorDelivered, closeDelivered, stdoutText, nChunks, cancelCalls, lastCancel, cancelAccepted>>

\* finishJob after readResultManifest, decoding what is left in the stdout
\* remainder as a last line before the terminal event.
FinishJobResumeFlushes(i, requestManifest) ==
  /\ i \in 1..Len(fin)
  /\ LET f == fin[i]
         out == Reconcile(f.exitCode, requestManifest, f.spawnError, rec)
     IN /\ events' = Append(events \o ProgressOf(<<rec.stdoutRemainder>>),
                         Event(out.state, Null, out.errorCode))
        /\ result' = IF result # Null THEN result
                     ELSE Some([jobId |-> runJobId[1], state |-> out.state,
                                exitCode |-> f.exitCode, errorCode |-> out.errorCode,
                                manifest |-> requestManifest])
  /\ activeJobs' = activeJobs \ {runJobId[1]}
  /\ resolveCalls' = resolveCalls + 1
  /\ fin' = RemoveAt(fin, i)
  /\ UNCHANGED <<killRuns, signals, preflight, dup, view, mjobs, now, timerDue, request, spawnArgs, platform, started, runJobId, rec, timer, child, desc, kill,
                 errorDelivered, closeDelivered, stdoutText, nChunks, cancelCalls, lastCancel, cancelAccepted>>

\* finishJob after readResultManifest returned requestManifest.
FinishJobResume(i, requestManifest) ==
  /\ i \in 1..Len(fin)
  /\ LET f == fin[i]
         out == Reconcile(f.exitCode, requestManifest, f.spawnError, rec)
     IN /\ events' = Append(events, Event(out.state, Null, out.errorCode))
        /\ result' = IF result # Null THEN result
                     ELSE Some([jobId |-> runJobId[1], state |-> out.state,
                                exitCode |-> f.exitCode, errorCode |-> out.errorCode,
                                manifest |-> requestManifest])
  /\ activeJobs' = activeJobs \ {runJobId[1]}
  /\ resolveCalls' = resolveCalls + 1
  /\ fin' = RemoveAt(fin, i)
  /\ UNCHANGED <<killRuns, signals, preflight, dup, view, mjobs, now, timerDue, request, spawnArgs, platform, started, runJobId, rec, timer, child, desc, kill,
                 errorDelivered, closeDelivered, stdoutText, nChunks, cancelCalls, lastCancel, cancelAccepted>>

\* processRef.on("error"): the spawn failed; Node records the negative errno
\* as the exit code and delivers close afterwards.
ChildError ==
  /\ started
  /\ ~child.pidValid
  /\ ~errorDelivered
  /\ ~closeDelivered
  /\ errorDelivered' = TRUE
  /\ child' = [child EXCEPT !.exitCode = Some(SpawnFailCode)]
  /\ finishJob(runJobId[1], Null, TRUE)
  /\ UNCHANGED <<killRuns, signals, preflight, dup, view, mjobs, now, timerDue, request, spawnArgs, platform, started, runJobId, activeJobs, desc, kill, closeDelivered,
                 events, resolveCalls, result, stdoutText, nChunks, cancelCalls, lastCancel, cancelAccepted>>

\* processRef.on("close"): the child has ended and its stdio is closed.
ChildClose ==
  /\ started
  /\ ~closeDelivered
  /\ ~child.alive
  /\ child.pidValid \/ errorDelivered
  /\ closeDelivered' = TRUE
  /\ finishJob(runJobId[1], child.exitCode, FALSE)
  /\ UNCHANGED <<killRuns, signals, preflight, dup, view, mjobs, now, timerDue, request, spawnArgs, platform, started, runJobId, activeJobs, child, desc, kill,
                 errorDelivered, events, resolveCalls, result, stdoutText, nChunks,
                 cancelCalls, lastCancel, cancelAccepted>>

----------------------------------------------------------------------------
\* The supervised processes themselves.

\* The child exits on its own with a code.
ChildExit(code) ==
  /\ child.alive
  /\ child' = [child EXCEPT !.alive = FALSE, !.exitCode = Some(code)]
  /\ UNCHANGED <<killRuns, signals, preflight, dup, view, mjobs, now, timerDue, request, spawnArgs, platform, started, runJobId, activeJobs, rec, timer, fin, desc, kill,
                 errorDelivered, closeDelivered, events, resolveCalls, result,
                 stdoutText, nChunks, cancelCalls, lastCancel, cancelAccepted>>

\* The child spawns a process of its own, with stdio of its own.
ChildSpawn ==
  /\ child.alive
  /\ desc = "none"
  /\ desc' = "alive"
  /\ UNCHANGED <<killRuns, signals, preflight, dup, view, mjobs, now, timerDue, request, spawnArgs, platform, started, runJobId, activeJobs, rec, timer, fin, child, kill,
                 errorDelivered, closeDelivered, events, resolveCalls, result,
                 stdoutText, nChunks, cancelCalls, lastCancel, cancelAccepted>>

\* That process ends on its own.
DescExit ==
  /\ desc = "alive"
  /\ desc' = "dead"
  /\ UNCHANGED <<killRuns, signals, preflight, dup, view, mjobs, now, timerDue, request, spawnArgs, platform, started, runJobId, activeJobs, rec, timer, fin, child, kill,
                 errorDelivered, closeDelivered, events, resolveCalls, result,
                 stdoutText, nChunks, cancelCalls, lastCancel, cancelAccepted>>

Next ==
  \/ \E req \in Requests, u \in UUIDs, ok \in BOOLEAN : run(req, u, ok)
  \/ \E j \in JobIds : cancel(j)
  \/ TimeoutFire
  \/ \E c \in Chunks : StdoutData(c)
  \/ ChildError
  \/ ChildClose
  \/ \E i \in 1..Len(fin), m \in Manifests : FinishJobResume(i, m)
  \/ KillTreeWake
  \/ TaskkillClose
  \/ \E code \in ExitCodes : ChildExit(code)
  \/ ChildSpawn
  \/ DescExit

Spec == Init /\ [][Next]_vars
----------------------------------------------------------------------------
\* Properties of the job lifecycle.

IsTerminal(e) == e.state \in TerminalStates
IsProgress(e) == e.state = "running" /\ e.progressEvent # Null
TerminalEvents == SelectSeq(events, IsTerminal)
ProgressEvents == SelectSeq(events, IsProgress)
IsPrefix(s, t) == Len(s) <= Len(t) /\ SubSeq(t, 1, Len(s)) = s
Resolved == result # Null
\* The progress events of the complete lines of everything the child wrote.
DecodeAll(text) ==
  LET pieces == SplitLines(text) IN ProgressOf(SubSeq(pieces, 1, Len(pieces) - 1))

\* C1: whatever the interleaving of cancel() calls, the timeout, stdout chunks
\* and the error/close callbacks, the sink receives at most one terminal event,
\* resolve is called at most once, and settled never goes back to false (so it
\* goes false -> true at most once).
C1_SettlesAtMostOnce ==
  /\ [](Len(TerminalEvents) <= 1 /\ resolveCalls <= 1)
  /\ [][rec.settled => rec'.settled]_vars

\* An error callback followed by a close callback, with an accepted cancel and
\* a fired timeout, and the job settled.
C1_Witness ==
  /\ errorDelivered /\ closeDelivered /\ cancelAccepted /\ rec.timedOut
  /\ Len(TerminalEvents) = 1 /\ resolveCalls = 1

\* C2: once cancel() has returned true, the job's result is cancelled with
\* E_CANCELLED, whatever the exit code and the manifest.
C2_CancelAlwaysWins ==
  (Resolved /\ cancelAccepted) =>
    (result[1].state = "cancelled" /\ result[1].errorCode = Some("E_CANCELLED"))

\* C3: when the timeout watcher has set timedOut and no cancel() was accepted,
\* the job's result is failed with E_TIMEOUT, whatever the exit code and the
\* manifest.
C3_TimeoutAlwaysWins ==
  (Resolved /\ rec.timedOut /\ ~cancelAccepted) =>
    (result[1].state = "failed" /\ result[1].errorCode = Some("E_TIMEOUT"))

\* C4: the result is succeeded exactly when the exit callback delivered exit
\* code 0 and the manifest read afterwards has status succeeded, and then the
\* errorCode is null and the child has indeed closed with exit code 0.
C4_SuccessPurity ==
  Resolved =>
    /\ (result[1].state = "succeeded") <=>
         (/\ result[1].exitCode = Some(0)
          /\ result[1].manifest # Null
          /\ result[1].manifest[1].status = "succeeded")
    /\ (result[1].state = "succeeded" =>
          /\ result[1].errorCode = Null
          /\ closeDelivered /\ child.exitCode = Some(0))

\* A job that succeeded: the child closed with exit code 0.
C4_Witness ==
  Resolved /\ result[1].state = "succeeded" /\ closeDelivered /\ child.exitCode = Some(0)

\* C5: in the result and in every terminal event, errorCode is non-null exactly
\* when the state is not succeeded.
C5_ErrorCodeIffNotSucceeded ==
  /\ Resolved => ((result[1].errorCode # Null) <=> (result[1].state # "succeeded"))
  /\ \A i \in DOMAIN events :
       IsTerminal(events[i]) =>
         ((events[i].errorCode # Null) <=> (events[i].state # "succeeded"))

\* A job cancelled by the child's own report, whose manifest has no errorCode.
C5_Witness ==
  /\ Resolved /\ result[1].state = "cancelled" /\ ~cancelAccepted
  /\ result[1].manifest # Null /\ result[1].manifest[1].errorCode = Null

\* C6: the sink history of a job is queued, the running transition, progress
\* events in the order of the child's stdout lines, and then at most one
\* terminal event, after which nothing follows; a resolved job has its terminal
\* event.
C6_EventOrder ==
  /\ ~started => events = <<>>
  /\ started =>
       /\ Len(events) >= 2
       /\ events[1] = Event("queued", Null, Null)
       /\ events[2] = Event("running", Null, Null)
       /\ \A i \in 3..Len(events) :
            IsProgress(events[i]) \/ (i = Len(events) /\ IsTerminal(events[i]))
       /\ IsPrefix(ProgressEvents, DecodeAll(stdoutText))
       /\ Resolved => IsTerminal(events[Len(events)])

\* A settled job with two different progress events, the second from a line
\* that arrived in two chunks, followed by the terminal event.
C6_Witness ==
  /\ Resolved /\ Len(events) = 5 /\ IsTerminal(events[5])
  /\ events[3].progressEvent = Some(<<"1">>)
  /\ events[4].progressEvent = Some(<<"2">>)

\* C7: once the result promise has resolved after an accepted cancel() or a
\* fired timeout, neither the child nor a process it spawned is alive.
C7_NoOrphanAfterCancelOrTimeout ==
  (Resolved /\ (cancelAccepted \/ rec.timedOut)) =>
    (~child.alive /\ desc # "alive")

\* C8: once the result promise has resolved, on any exit path, neither the
\* child nor a process it spawned is alive.
C8_NoOrphanOnAnyPath ==
  Resolved => (~child.alive /\ desc # "alive")

\* C9: no terminal event and no resolution before an error or close callback,
\* and a cancel() call or the timeout watcher leaves the sink, the settled flag
\* and the result as they are.
C9_SettlesOnlyOnExitCallback ==
  /\ []((Len(TerminalEvents) > 0 \/ resolveCalls > 0 \/ rec.settled)
          => (errorDelivered \/ closeDelivered))
  /\ [][(cancelCalls' # cancelCalls \/ (timer = "armed" /\ timer' = "fired"))
          => (/\ events' = events /\ result' = result /\ fin' = fin
              /\ resolveCalls' = resolveCalls /\ rec'.settled = rec.settled)]_vars

\* A job with an accepted cancel and a fired timeout that is still unsettled,
\* its terminator running.
C9_Witness ==
  /\ cancelAccepted /\ rec.timedOut /\ kill.phase = "sleeping"
  /\ ~rec.settled /\ TerminalEvents = <<>> /\ ~Resolved

\* C10: a cancel() call returns true exactly when the job is in the active map
\* and unsettled, and a call that returns false changes nothing.
C10_CancelGuard ==
  [][cancelCalls' # cancelCalls =>
       LET c == lastCancel'[1]
       IN /\ c.ret = (c.jobId \in activeJobs /\ ~rec.settled)
          /\ ~c.ret => UNCHANGED <<activeJobs, rec, timer, fin, child, desc, kill,
                                   events, resolveCalls, result, cancelAccepted>>]_vars

\* A late cancel(): refused for a job that is settled but still in the map,
\* after an earlier call was accepted.
C10_Witness ==
  /\ lastCancel = Some([jobId |-> "job-a", ret |-> FALSE])
  /\ "job-a" \in activeJobs /\ rec.settled /\ cancelAccepted
----------------------------------------------------------------------------
\* Progress of the job lifecycle.  readResultManifest always completes (the
\* file is read or the read fails), so a suspended finishJob is resumed.
ManifestRead == \E i \in 1..Len(fin), m \in Manifests : FinishJobResume(i, m)

SpecLive == Init /\ [][Next]_vars /\ WF_vars(ManifestRead)

\* C11: once the child has delivered its close or error callback, the job
\* eventually has its terminal event, is out of the active map and its result
\* promise is resolved, whatever the manifest read returns.
C11_ExitCallbackLeadsToSettlement ==
  (errorDelivered \/ closeDelivered) ~>
    (Resolved /\ Len(TerminalEvents) = 1 /\ activeJobs = {} /\ fin = <<>>)

\* A job resolved with a null manifest (the read failed) after a close callback.
C11_Witness ==
  /\ closeDelivered /\ Resolved /\ result[1].manifest = Null
  /\ Len(TerminalEvents) = 1 /\ activeJobs = {}
----------------------------------------------------------------------------
\* A hung child: it never exits on its own and ignores SIGTERM.  The job is
\* started with a positive timeoutMs and cancel() is never called.  Timers,
\* the grace sleep, taskkill, the close callback and the manifest read all
\* complete.
PositiveTimeouts == {t \in TimeoutInputs : t # Null /\ t[1] > 0}

HangRun ==
  \E req \in Requests, u \in UUIDs : req.timeoutMs \in PositiveTimeouts /\ run(req, u, TRUE)

\* The watcher fires; the child ignores the SIGTERM it is sent.
HangTimeoutFire == TimeoutFire /\ child' = child

HangStdout == \E c \in Chunks : StdoutData(c)

NextTimeoutHang ==
  \/ HangRun
  \/ HangTimeoutFire
  \/ HangStdout
  \/ ChildClose
  \/ ManifestRead
  \/ KillTreeWake
  \/ TaskkillClose
  \/ ChildSpawn
  \/ DescExit

SpecTimeoutHang ==
  /\ Init /\ [][NextTimeoutHang]_vars
  /\ WF_vars(HangTimeoutFire) /\ WF_vars(KillTreeWake) /\ WF_vars(TaskkillClose)
  /\ WF_vars(ChildClose) /\ WF_vars(ManifestRead)

\* C12: a job with a positive timeoutMs whose child hangs and ignores SIGTERM,
\* with no cancel(), settles as failed with E_TIMEOUT.
C12_HungChildTimesOut ==
  Resolved => (result[1].state = "failed" /\ result[1].errorCode = Some("E_TIMEOUT"))

\* The same job does settle: once started it is eventually resolved, after the
\* watcher fired and the child was ended.
C12_HungChildSettles ==
  started ~> (Resolved /\ rec.timedOut /\ ~child.alive)
----------------------------------------------------------------------------
\* A hung child that is cancelled: it never exits on its own; to SIGTERM it
\* reacts by dying, by exiting with a non-zero code, or not at all.  The
\* timeout watcher may fire as well.
CancelHangRun == \E req \in Requests, u \in UUIDs : run(req, u, TRUE)

CancelHangCancel == \E j \in JobIds : cancel(j) /\ child'.exitCode # Some(0)

CancelHangTimeoutFire == TimeoutFire /\ child'.exitCode # Some(0)

NextCancelHang ==
  \/ CancelHangRun
  \/ CancelHangCancel
  \/ CancelHangTimeoutFire
  \/ HangStdout
  \/ ChildClose
  \/ ManifestRead
  \/ KillTreeWake
  \/ TaskkillClose
  \/ ChildSpawn
  \/ DescExit

SpecCancelHang ==
  /\ Init /\ [][NextCancelHang]_vars
  /\ WF_vars(KillTreeWake) /\ WF_vars(TaskkillClose)
  /\ WF_vars(ChildClose) /\ WF_vars(ManifestRead)

----------------------------------------------------------------------------
\* The stdout decoder on its own: a started job whose child writes any text of
\* at most MaxTextLen characters, cut into at most MaxChunks chunks anywhere.
DecodeRun == \E req \in Requests, u \in UUIDs : req.timeoutMs = Null /\ run(req, u, TRUE)

ChunksUpTo(n) == UNION {[1..k -> Chars] : k \in 1..n}

DecodeData == \E c \in ChunksUpTo(MaxTextLen - Len(stdoutText)) : StdoutData(c)

NextDecode == DecodeRun \/ DecodeData

SpecDecode == Init /\ [][NextDecode]_vars

\* The lines of a text read off the positions of its line feeds, without any
\* reference to chunks: the line ended by the line feed at position i.
LineStart(text, i) ==
  LET before == {j \in 1..(i - 1) : text[j] = LF}
  IN IF before = {} THEN 1 ELSE (CHOOSE j \in before : \A k \in before : k <= j) + 1

LineEndedAt(text, i) ==
  LET raw == SubSeq(text, LineStart(text, i), i - 1)
  IN IF Len(raw) > 0 /\ raw[Len(raw)] = CR THEN SubSeq(raw, 1, Len(raw) - 1) ELSE raw

\* A well-formed JSON line: digits, with whitespace around them only.
IsJsonSpan(s, a, b) ==
  /\ a <= b
  /\ \A k \in 1..Len(s) : IF a <= k /\ k <= b THEN s[k] \in Digits ELSE s[k] \in Whitespace

WellFormed(s) == \E a, b \in 1..Len(s) : IsJsonSpan(s, a, b)

JsonValue(s) ==
  LET ab == CHOOSE ab \in (1..Len(s)) \X (1..Len(s)) : IsJsonSpan(s, ab[1], ab[2])
  IN SubSeq(s, ab[1], ab[2])

ExpectedEvents(text) ==
  LET ends == SelectSeq([i \in 1..Len(text) |-> i],
                        LAMBDA i : text[i] = LF /\ WellFormed(LineEndedAt(text, i)))
  IN [k \in 1..Len(ends) |->
        Event("running", Some(JsonValue(LineEndedAt(text, ends[k]))), Null)]

UnfinishedLine(text) == SubSeq(text, LineStart(text, Len(text) + 1), Len(text))

----------------------------------------------------------------------------
\* C15: a job whose child delivered the error callback, with no accepted cancel
\* and no timeout, resolves as failed with E_ENGINE_FAILED and exit code null,
\* whatever result.json the output directory holds.
C15_SpawnFailureIsEngineFailed ==
  (Resolved /\ errorDelivered /\ ~cancelAccepted /\ ~rec.timedOut) =>
    /\ result[1].state = "failed"
    /\ result[1].errorCode = Some("E_ENGINE_FAILED")
    /\ result[1].exitCode = Null
----------------------------------------------------------------------------
----------------------------------------------------------------------------
\* The argument list of the child as a function of the request: run() applied
\* to every combination of omitted and given optional fields.
OptionalJobIds == {Null, Some("job-a")}
OptionalBackends == {Null, Some("vlm")}
OptionalMethods == {Null, Some("txt")}
OptionalLangs == {Null, Some(""), Some("en")}
OptionalStarts == {Null, Some(0)}
OptionalEnds == {Null, Some(3)}

AllRequests ==
  [inputPath : {"in.pdf"}, outputDir : {"out"}, jobId : OptionalJobIds,
   backend : OptionalBackends, method : OptionalMethods, lang : OptionalLangs,
   start : OptionalStarts, end : OptionalEnds, timeoutMs : TimeoutInputs]

ArgsRun == \E req \in AllRequests, u \in UUIDs, ok \in BOOLEAN : run(req, u, ok)

NextArgs == ArgsRun

SpecArgs == Init /\ [][NextArgs]_vars

HasFlag(args, flag) == \E i \in 1..Len(args) : args[i] = flag

\* The argument that follows the flag.
FlagValue(args, flag) ==
  LET i == CHOOSE i \in 1..Len(args) : args[i] = flag IN args[i + 1]

\* The flags every child gets, with the backend defaulted to pipeline.
ArgsAlwaysPresent ==
  /\ HasFlag(spawnArgs, "--input") /\ FlagValue(spawnArgs, "--input") = request[1].inputPath
  /\ HasFlag(spawnArgs, "--output") /\ FlagValue(spawnArgs, "--output") = request[1].outputDir
  /\ HasFlag(spawnArgs, "--job-id") /\ FlagValue(spawnArgs, "--job-id") = runJobId[1]
  /\ request[1].jobId # Null => runJobId = request[1].jobId
  /\ HasFlag(spawnArgs, "--backend")
  /\ FlagValue(spawnArgs, "--backend") =
       (IF request[1].backend = Null THEN "pipeline" ELSE request[1].backend[1])
  /\ HasFlag(spawnArgs, "--jsonl")

\* C17 as stated: the flags that are always present, and no flag at all for
\* an omitted method, lang, start, end or timeoutMs.
C17_OmittedFieldsProduceNoFlag ==
  started =>
    /\ ArgsAlwaysPresent
    /\ request[1].method = Null => ~HasFlag(spawnArgs, "--method")
    /\ request[1].lang = Null => ~HasFlag(spawnArgs, "--lang")
    /\ request[1].start = Null => ~HasFlag(spawnArgs, "--start")
    /\ request[1].end = Null => ~HasFlag(spawnArgs, "--end")
    /\ request[1].timeoutMs = Null => ~HasFlag(spawnArgs, "--timeout-ms")

FlagCount ==
  Cardinality({f \in {"--timeout-ms", "--lang", "--start", "--end"} : HasFlag(spawnArgs, f)})

\* C17 (amended): the argument list is determined by the request and the job
\* id (the request's, or a generated one when omitted).  It always holds the
\* input, output, job-id, backend and method flags and --jsonl, backend
\* defaulting to pipeline and method to auto; --lang is passed exactly when
\* lang is a non-empty string; --timeout-ms, --start and --end are passed
\* exactly when the field is a number (0 included), with its decimal text; and
\* there is nothing else in the list.
C17_ArgsOfRequest ==
  started =>
    /\ ArgsAlwaysPresent
    /\ request[1].jobId = Null => runJobId[1] \in UUIDs
    /\ HasFlag(spawnArgs, "--method")
    /\ FlagValue(spawnArgs, "--method") =
         (IF request[1].method = Null THEN "auto" ELSE request[1].method[1])
    /\ HasFlag(spawnArgs, "--lang") <=> LangGiven(request[1])
    /\ LangGiven(request[1]) => FlagValue(spawnArgs, "--lang") = request[1].lang[1]
    /\ HasFlag(spawnArgs, "--timeout-ms") <=> request[1].timeoutMs # Null
    /\ request[1].timeoutMs # Null =>
         FlagValue(spawnArgs, "--timeout-ms") = ToString(request[1].timeoutMs[1])
    /\ HasFlag(spawnArgs, "--start") <=> request[1].start # Null
    /\ request[1].start # Null =>
         FlagValue(spawnArgs, "--start") = ToString(request[1].start[1])
    /\ HasFlag(spawnArgs, "--end") <=> request[1].end # Null
    /\ request[1].end # Null =>
         FlagValue(spawnArgs, "--end") = ToString(request[1].end[1])
    /\ Len(spawnArgs) = 11 + 2 * FlagCount

\* A request with only the required fields, an empty lang and a zero timeout:
\* the child gets the default backend and method, a generated job id, the
\* timeout flag and no language flag.
C17_Witness ==
  /\ started
  /\ request[1].jobId = Null /\ request[1].backend = Null /\ request[1].method = Null
  /\ request[1].lang = Some("") /\ request[1].timeoutMs = Some(0)
  /\ request[1].start = Null /\ request[1].end = Null
  /\ spawnArgs = <<"--input", "in.pdf", "--output", "out", "--job-id", "uuid-2",
                   "--backend", "pipeline", "--method", "auto", "--jsonl",
                   "--timeout-ms", "0">>
----------------------------------------------------------------------------
\* The reconciliation over the whole exit-code table: the lifecycle without
\* stdout and without descendants, the child exiting with any code from -1 to
\* MaxExitCode or being ended by a signal from outside.
AllExitCodes == (0 - 1)..MaxExitCode

AnyChildExit == \E code \in AllExitCodes : ChildExit(code)

\* The child is ended by a signal the supervisor did not send.
ChildKilled ==
  /\ child.alive
  /\ child' = [child EXCEPT !.alive = FALSE]
  /\ UNCHANGED <<killRuns, signals, preflight, dup, view, mjobs, now, timerDue, request, spawnArgs, platform, started, runJobId, activeJobs, rec, timer,
                 fin, desc, kill, errorDelivered, closeDelivered, events, resolveCalls,
                 result, stdoutText, nChunks, cancelCalls, lastCancel, cancelAccepted>>

NextExitCodes ==
  \/ \E req \in Requests, u \in UUIDs, ok \in BOOLEAN : run(req, u, ok)
  \/ \E j \in RunJobIds : cancel(j)
  \/ TimeoutFire
  \/ AnyChildExit
  \/ ChildKilled
  \/ ChildError
  \/ ChildClose
  \/ ManifestRead
  \/ KillTreeWake
  \/ TaskkillClose

SpecExitCodes == Init /\ [][NextExitCodes]_vars

\* The manifest of the result gives an error code: neither null nor empty.
ManifestGivesCode == Truthy(ManifestErrorCode(result[1].manifest))

\* The exit-code table as the contract states it.
TableEntry(exitCode) ==
  IF exitCode = Some(1) THEN "E_ENGINE_FAILED"
  ELSE IF exitCode = Some(2) THEN "E_INVALID_INPUT"
  ELSE IF exitCode = Some(3) THEN "E_OUTPUT_UNWRITABLE"
  ELSE IF exitCode = Some(4) THEN "E_CANCELLED"
  ELSE IF exitCode = Some(5) THEN "E_TIMEOUT"
  ELSE "E_ENGINE_FAILED"

\* C18: the errorCode of a failed result is E_TIMEOUT if the timeout fired;
\* else the manifest's errorCode, verbatim, if the manifest gives one; else
\* E_ENGINE_FAILED if the job was settled by the error callback; else the
\* exit-code table entry of the exit code.
C18_FailedErrorCodeOrder ==
  (Resolved /\ result[1].state = "failed") =>
    result[1].errorCode =
      IF rec.timedOut THEN Some("E_TIMEOUT")
      ELSE IF ManifestGivesCode THEN result[1].manifest[1].errorCode
      ELSE IF errorDelivered THEN Some("E_ENGINE_FAILED")
      ELSE Some(TableEntry(result[1].exitCode))

\* Exit code 2 with a manifest {failed, E_INVALID_INPUT}, no timeout.
C18_Witness ==
  /\ Resolved /\ result[1].state = "failed" /\ ~rec.timedOut
  /\ result[1].exitCode = Some(2)
  /\ result[1].manifest = Some([status |-> "failed", errorCode |-> Some("E_INVALID_INPUT")])
  /\ result[1].errorCode = Some("E_INVALID_INPUT")

\* C19: a result for which the success condition does not hold, and for which
\* cancel() was accepted or the exit code is 4 or the manifest status is
\* cancelled, is cancelled; its errorCode is E_CANCELLED after an accepted
\* cancel, else the manifest's errorCode if it is not null, else E_CANCELLED.
C19_CancelledBranch ==
  (/\ Resolved
   /\ ~(result[1].exitCode = Some(0) /\ ManifestStatus(result[1].manifest) = Some("succeeded"))
   /\ \/ rec.requestedCancel
      \/ result[1].exitCode = Some(4)
      \/ ManifestStatus(result[1].manifest) = Some("cancelled")) =>
    /\ result[1].state = "cancelled"
    /\ result[1].errorCode =
         IF rec.requestedCancel THEN Some("E_CANCELLED")
         ELSE IF ManifestErrorCode(result[1].manifest) # Null
              THEN ManifestErrorCode(result[1].manifest)
              ELSE Some("E_CANCELLED")

\* No cancel() call; the child exits 4 and leaves a manifest {cancelled, null}:
\* cancelled with the fallback E_CANCELLED.
C19_Witness ==
  /\ Resolved /\ ~rec.requestedCancel /\ cancelCalls = 0
  /\ result[1].exitCode = Some(4)
  /\ result[1].manifest = Some([status |-> "cancelled", errorCode |-> Null])
  /\ result[1].state = "cancelled" /\ result[1].errorCode = Some("E_CANCELLED")

\* The result rests on the exit code alone: no cancel, no timeout, no spawn
\* error, and a manifest that is missing or is not cancelled and has a null
\* errorCode.
ExitCodeAlone ==
  /\ Resolved /\ ~rec.requestedCancel /\ ~rec.timedOut /\ ~errorDelivered
  /\ ManifestStatus(result[1].manifest) # Some("cancelled")
  /\ ManifestErrorCode(result[1].manifest) = Null
  /\ ~(result[1].exitCode = Some(0) /\ ManifestStatus(result[1].manifest) = Some("succeeded"))

\* C20: mapExitCodeToErrorCode is the table 1 E_ENGINE_FAILED, 2
\* E_INVALID_INPUT, 3 E_OUTPUT_UNWRITABLE, 4 E_CANCELLED, 5 E_TIMEOUT, and
\* E_ENGINE_FAILED for 0, a negative code, a code above 5 and null; a result
\* that rests on the exit code alone carries the table entry of its exit code
\* and is failed unless the code is 4, so exit 0 without a succeeded manifest
\* is failed with E_ENGINE_FAILED.
C20_ExitCodeTable ==
  /\ \A x \in {Null} \cup {Some(c) : c \in AllExitCodes} :
       mapExitCodeToErrorCode(x) = TableEntry(x)
  /\ ExitCodeAlone =>
    /\ result[1].errorCode = Some(TableEntry(result[1].exitCode))
    /\ result[1].state = IF result[1].exitCode = Some(4) THEN "cancelled" ELSE "failed"
    /\ result[1].exitCode = Some(0) =>
         (result[1].state = "failed" /\ result[1].errorCode = Some("E_ENGINE_FAILED"))

\* The child exits 5 and leaves no manifest: failed with E_TIMEOUT from the
\* table, the timeout watcher not having fired.
C20_Witness ==
  /\ ExitCodeAlone /\ result[1].exitCode = Some(5) /\ result[1].manifest = Null
  /\ result[1].state = "failed" /\ result[1].errorCode = Some("E_TIMEOUT")
----------------------------------------------------------------------------
\* C21: the step that is run() leaves the sink with exactly queued followed by
\* the running transition, before any stdout chunk or exit callback is
\* handled; so the event stream of every started job begins with queued,
\* running, whether or not the child ever writes to stdout.
C21_QueuedRunningInRun ==
  /\ [][(~started /\ started') =>
          /\ events' = <<Event("queued", Null, Null), Event("running", Null, Null)>>
          /\ nChunks' = 0 /\ ~errorDelivered' /\ ~closeDelivered' /\ fin' = <<>>]_vars
  /\ [](started => /\ Len(events) >= 2
                   /\ events[1] = Event("queued", Null, Null)
                   /\ events[2] = Event("running", Null, Null))

\* A job that settled without its child ever writing to stdout: queued,
\* running, terminal.
C21_Witness ==
  /\ Resolved /\ nChunks = 0 /\ stdoutText = <<>> /\ Len(events) = 3
  /\ events[1].state = "queued" /\ events[2] = Event("running", Null, Null)
  /\ IsTerminal(events[3])

\* The sink invocations with state running and no progressEvent.
RunningTransitions ==
  {i \in 1..Len(events) : events[i].state = "running" /\ events[i].progressEvent = Null}

----------------------------------------------------------------------------
\* C23: while a terminator run is in flight the job's record holds its handle,
\* and no step starts another run; a signal is issued during the run only by
\* the run's own continuation, which ends it.  So repeated cancel() calls and
\* the timeout firing during a run start nothing and send nothing.
C23_OneTerminatorInFlight ==
  /\ [](kill.phase # "idle" => rec.killTreeRef)
  /\ [][kill.phase # "idle" =>
          /\ killRuns' = killRuns
          /\ signals' # signals => kill'.phase = "idle"]_vars

\* Two accepted cancel() calls and the timeout, all while the one run started
\* by the first of them is still in flight.
C23_Witness ==
  /\ kill.phase # "idle" /\ killRuns = 1
  /\ cancelCalls = 2 /\ rec.requestedCancel /\ rec.timedOut
  /\ lastCancel = Some([jobId |-> "job-a", ret |-> TRUE])
  /\ Len(signals) <= 1

\* C24: over the job's lifetime killProcessTree is called exactly once if a
\* cancel() was accepted or the timeout fired, and never more than once.
C24_TerminatorStartedOnce ==
  /\ killRuns <= 1
  /\ (cancelAccepted \/ rec.timedOut) => killRuns = 1

\* C25: on the signal-based paths every SIGKILL the terminator issues follows
\* the SIGTERM of the same run, and is issued only while the child is still
\* running, whether it would have ended by an exit code or by a signal.
C25_GracefulBeforeForceful ==
  \A i \in 1..Len(signals) :
    signals[i].signal = "SIGKILL" =>
      /\ i > 1 /\ signals[i - 1].signal = "SIGTERM"
      /\ signals[i].childAlive
----------------------------------------------------------------------------
\* The lifecycle with a clock: time passes in ticks of TickMs, and a setTimeout
\* callback runs no earlier than its delay after the call of setTimeout.
TickMs == 350

Tick ==
  /\ started
  /\ now < MaxTicks * TickMs
  /\ now' = now + TickMs
  /\ UNCHANGED <<preflight, dup, view, mjobs, timerDue, request, spawnArgs, platform, started, runJobId, activeJobs,
                 rec, timer, fin, child, desc, kill, errorDelivered, closeDelivered,
                 events, resolveCalls, result, stdoutText, nChunks, cancelCalls,
                 lastCancel, cancelAccepted, killRuns, signals>>

TimedTimeoutFire == timerDue # Null /\ now >= timerDue[1] /\ TimeoutFire

NextTimed ==
  \/ \E req \in Requests, u \in UUIDs, ok \in BOOLEAN : run(req, u, ok)
  \/ \E j \in RunJobIds : cancel(j)
  \/ Tick
  \/ TimedTimeoutFire
  \/ \E code \in ExitCodes : ChildExit(code)
  \/ ChildError
  \/ ChildClose
  \/ ManifestRead
  \/ KillTreeWake
  \/ TaskkillClose

SpecTimed == Init /\ [][NextTimed]_vars

\* C26: the watcher's callback runs, sets timedOut and starts the terminator
\* no earlier than timeoutMs + 750 ms after run(); when it runs the job is in
\* the active map and unsettled; and from the step that processes the exit
\* callback on the timer is no longer armed.
C26_WatcherNotEarly ==
  /\ [](rec.timedOut => now >= request[1].timeoutMs[1] + 750)
  /\ [](rec.settled => timer # "armed")
  /\ [][timer' # timer /\ timer' = "fired" =>
          /\ now >= request[1].timeoutMs[1] + 750
          /\ runJobId[1] \in activeJobs /\ ~rec.settled
          /\ rec'.timedOut]_vars
  /\ [][~rec.timedOut /\ killRuns' # killRuns /\ cancelCalls' = cancelCalls =>
          now >= request[1].timeoutMs[1] + 750]_vars

\* The watcher fired at 1050 ms for timeoutMs = 300 and started the terminator.
C26_Witness ==
  /\ request # Null /\ request[1].timeoutMs = Some(300)
  /\ rec.timedOut /\ timer = "fired" /\ now = 1050 /\ killRuns = 1 /\ cancelCalls = 0
----------------------------------------------------------------------------
\* The job's record is in the active map.
InMap == runJobId # Null /\ runJobId[1] \in activeJobs

\* C27 as stated: a started job is in the active map exactly while its record
\* is unsettled, so no record in the map has settled = true.
C27_InMapIffUnsettled ==
  started => (InMap <=> ~rec.settled)

\* C27 (amended): a started job is in the active map exactly until its
\* terminal event, and is removed in the step that emits it and resolves.
\* settled becomes true earlier, when the first exit callback is processed;
\* a settled record is in the map exactly while a finishJob is suspended in
\* the manifest read, and during that time the timer is not armed and no step
\* changes the record, starts a terminator run, suspends another finishJob or
\* emits anything but the terminal event.
C27_RemovedAtTerminalEvent ==
  /\ [](started => (InMap <=> Len(TerminalEvents) = 0))
  /\ [](started => (InMap <=> ~Resolved))
  /\ []((InMap /\ rec.settled) <=> fin # <<>>)
  /\ []((InMap /\ rec.settled) => timer # "armed")
  /\ [][(InMap /\ rec.settled) =>
          /\ rec'.requestedCancel = rec.requestedCancel
          /\ rec'.timedOut = rec.timedOut
          /\ rec'.settled
          /\ killRuns' = killRuns
          /\ Len(fin') <= Len(fin)
          /\ events' # events => (~InMap' /\ Resolved' /\ IsTerminal(events'[Len(events')]))]_vars

\* The manifest is being read: the settled record is still in the map and a
\* cancel() made meanwhile has returned false.
C27_Witness ==
  /\ InMap /\ rec.settled /\ Len(fin) = 1 /\ ~Resolved
  /\ lastCancel = Some([jobId |-> "job-a", ret |-> FALSE])
  /\ ~rec.requestedCancel
----------------------------------------------------------------------------
\* C28: requestedCancel, timedOut and settled are false when run() returns and
\* never go back to false; requestedCancel is set only by a cancel() call that
\* returns true, timedOut only by the callback of the timeout watcher, settled
\* only by finishJob called from the error or close callback.
C28_FlagsMonotonic ==
  /\ [](~started => (~rec.requestedCancel /\ ~rec.timedOut /\ ~rec.settled))
  /\ [][(~started /\ started') =>
          (~rec'.requestedCancel /\ ~rec'.timedOut /\ ~rec'.settled)]_vars
  /\ [][/\ rec.requestedCancel => rec'.requestedCancel
        /\ rec.timedOut => rec'.timedOut
        /\ rec.settled => rec'.settled]_vars
  /\ [][rec'.requestedCancel # rec.requestedCancel =>
          /\ cancelCalls' = cancelCalls + 1
          /\ lastCancel' = Some([jobId |-> runJobId[1], ret |-> TRUE])]_vars
  /\ [][rec'.timedOut # rec.timedOut => (timer = "armed" /\ timer' = "fired")]_vars
  /\ [][rec'.settled # rec.settled =>
          /\ errorDelivered' # errorDelivered \/ closeDelivered' # closeDelivered
          /\ Len(fin') = Len(fin) + 1]_vars

\* A resolved job with all three flags set.
C28_Witness ==
  Resolved /\ rec.requestedCancel /\ rec.timedOut /\ rec.settled
----------------------------------------------------------------------------
\* Two jobs with distinct ids on one bridge (POSIX, spawn succeeding).  Every
\* handler of run() closes over its own jobId and reaches the job's record by
\* activeJobs.get(jobId); the children are separate processes in separate
\* process groups.

jobVars == <<platform, started, runJobId, activeJobs, rec, timer, fin, child, desc,
             kill, errorDelivered, closeDelivered, events, resolveCalls, result,
             stdoutText, nChunks, cancelCalls, lastCancel, cancelAccepted,
             request, spawnArgs, killRuns, signals, now, timerDue>>

MultiChunks == { <<"1">>, <<"1", LF>> }
MultiTimeouts == {Some(300)}
MultiExitCodes == {0}
MultiManifests == {Null, Some([status |-> "succeeded", errorCode |-> Null])}

\* The keys of the activeJobs map.
ActiveIds == {k \in JobIds : mjobs[k].inMap}

\* A handler of job j that writes the stdout remainder into a buffer shared by
\* all jobs of the bridge.
MultiPutSharedRemainder(j, J) ==
  [k \in JobIds |->
     IF k = j THEN J
     ELSE [mjobs[k] EXCEPT !.rec.stdoutRemainder = J.rec.stdoutRemainder]]

\* The bridge after a handler of job j has left j's state as J.
MultiPut(j, J) == [mjobs EXCEPT ![j] = J]

MultiRun(j, timeoutMs) ==
  /\ ~mjobs[j].started
  /\ LET queued == <<Event("queued", Null, Null)>>
         e == emitRunningOnce(j, ActiveIds \cup {j}, NewActiveJob, queued)
         armed == timeoutMs # Null /\ timeoutMs[1] > 0
     IN mjobs' = MultiPut(j, [mjobs[j] EXCEPT
                   !.started = TRUE, !.inMap = TRUE,
                   !.rec = [e.rec EXCEPT !.timeoutRef = armed],
                   !.events = e.events,
                   !.timer = IF armed THEN "armed" ELSE "none",
                   !.child = [pidValid |-> TRUE, alive |-> TRUE, exitCode |-> Null]])
  /\ UNCHANGED <<jobVars, preflight, dup, view>>

\* What a signal does to a child of this bridge: its children have no
\* handler that exits with a code.
MultiDeliver(c, signal) == {d \in Deliver(c, signal) : d.exitCode = c.exitCode}

\* requestKillTree(j) on job state J: the states it may leave.
MultiRequestKillTree(j, J) ==
  IF ~J.inMap \/ J.rec.settled \/ J.rec.killTreeRef \/ ~J.child.alive
  THEN {J}
  ELSE {[J EXCEPT !.child = c, !.killing = TRUE, !.rec.killTreeRef = TRUE] :
          c \in MultiDeliver(J.child, "SIGTERM")}

MultiCancel(j) ==
  /\ mjobs[j].inMap /\ ~mjobs[j].rec.settled
  /\ \E J \in MultiRequestKillTree(j, [mjobs[j] EXCEPT !.rec.requestedCancel = TRUE]) :
       mjobs' = MultiPut(j, J)
  /\ UNCHANGED <<jobVars, preflight, dup, view>>

MultiTimeoutFire(j) ==
  /\ mjobs[j].timer = "armed"
  /\ LET fired == [mjobs[j] EXCEPT !.timer = "fired"]
     IN IF ~fired.inMap \/ fired.rec.settled
        THEN mjobs' = MultiPut(j, fired)
        ELSE \E J \in MultiRequestKillTree(j, [fired EXCEPT !.rec.timedOut = TRUE]) :
               mjobs' = MultiPut(j, J)
  /\ UNCHANGED <<jobVars, preflight, dup, view>>

MultiKillTreeWake(j) ==
  /\ mjobs[j].killing
  /\ \E c \in (IF mjobs[j].child.exitCode # Null THEN {mjobs[j].child}
               ELSE MultiDeliver(mjobs[j].child, "SIGKILL")) :
       mjobs' = MultiPut(j, [mjobs[j] EXCEPT
                  !.child = c, !.killing = FALSE,
                  !.rec.killTreeRef = IF mjobs[j].inMap THEN FALSE ELSE @])
  /\ UNCHANGED <<jobVars, preflight, dup, view>>

MultiStdoutData(j, chunk) ==
  /\ mjobs[j].started /\ ~mjobs[j].closeDelivered
  /\ Len(mjobs[j].stdoutText) + Len(chunk) <= MaxMultiText
  /\ LET e == emitRunningOnce(j, ActiveIds, mjobs[j].rec, mjobs[j].events)
         c == consumeStdout(j, chunk, ActiveIds, e.rec, e.events)
     IN mjobs' = MultiPut(j, [mjobs[j] EXCEPT
                   !.rec = c.rec, !.events = c.events,
                   !.stdoutText = @ \o chunk])
  /\ UNCHANGED <<jobVars, preflight, dup, view>>

MultiChildExit(j, code) ==
  /\ mjobs[j].child.alive
  /\ mjobs' = [mjobs EXCEPT ![j].child = [@ EXCEPT !.alive = FALSE, !.exitCode = Some(code)]]
  /\ UNCHANGED <<jobVars, preflight, dup, view>>

MultiChildClose(j) ==
  /\ mjobs[j].started /\ ~mjobs[j].closeDelivered /\ ~mjobs[j].child.alive
  /\ LET closed == [mjobs[j] EXCEPT !.closeDelivered = TRUE]
     IN IF ~closed.inMap \/ closed.rec.settled
        THEN mjobs' = MultiPut(j, closed)
        ELSE mjobs' = MultiPut(j, [closed EXCEPT
                        !.rec.settled = TRUE,
                        !.timer = IF @ = "armed" THEN "cleared" ELSE @,
                        !.fin = Some([exitCode |-> closed.child.exitCode,
                                      spawnError |-> FALSE])])
  /\ UNCHANGED <<jobVars, preflight, dup, view>>

MultiFinishJobResume(j, requestManifest) ==
  /\ mjobs[j].fin # Null
  /\ LET f == mjobs[j].fin[1]
         out == Reconcile(f.exitCode, requestManifest, f.spawnError, mjobs[j].rec)
     IN mjobs' = MultiPut(j, [mjobs[j] EXCEPT
                   !.events = Append(@, Event(out.state, Null, out.errorCode)),
                   !.inMap = FALSE,
                   !.fin = Null,
                   !.result = Some([jobId |-> j, state |-> out.state,
                                    exitCode |-> f.exitCode, errorCode |-> out.errorCode,
                                    manifest |-> requestManifest])])
  /\ UNCHANGED <<jobVars, preflight, dup, view>>

\* Any handler of job j.
MultiStep(j) ==
  \/ \E t \in MultiTimeouts : MultiRun(j, t)
  \/ MultiCancel(j)
  \/ MultiTimeoutFire(j)
  \/ MultiKillTreeWake(j)
  \/ \E c \in MultiChunks : MultiStdoutData(j, c)
  \/ \E code \in MultiExitCodes : MultiChildExit(j, code)
  \/ MultiChildClose(j)
  \/ \E m \in MultiManifests : MultiFinishJobResume(j, m)

NextMulti == \E j \in JobIds : MultiStep(j)

SpecMulti == Init /\ [][NextMulti]_vars

MultiProgress(j) == SelectSeq(mjobs[j].events, IsProgress)

\* C29: a step of any handler of one job leaves the other job's state (record
\* with flags, stdout remainder and terminator handle, timer, child, sink
\* history, result) unchanged, in every interleaving; and each job's progress
\* events are the decoding of its own stdout only.
C29_JobsIndependent ==
  /\ [][\A j \in JobIds : MultiStep(j) =>
          \A k \in JobIds \ {j} : mjobs'[k] = mjobs[k]]_vars
  /\ [](\A j \in JobIds : MultiProgress(j) = DecodeAll(mjobs[j].stdoutText))

\* Job A holds an unfinished line and was cancelled; job B, run meanwhile,
\* decoded its own line and succeeded without any flag set.
C29_Witness ==
  /\ mjobs["job-a"].result # Null /\ mjobs["job-a"].result[1].state = "cancelled"
  /\ mjobs["job-a"].stdoutText = <<"1">> /\ mjobs["job-a"].rec.stdoutRemainder = <<"1">>
  /\ mjobs["job-a"].rec.timedOut
  /\ mjobs["job-b"].result # Null /\ mjobs["job-b"].result[1].state = "succeeded"
  /\ mjobs["job-b"].stdoutText = <<"1", LF>> /\ Len(MultiProgress("job-b")) = 1
  /\ ~mjobs["job-b"].rec.requestedCancel /\ ~mjobs["job-b"].rec.timedOut
----------------------------------------------------------------------------
\* C30: the step that resolves the job puts into the result the exit code the
\* suspended finishJob was called with and the manifest just read, whatever
\* the state; finishJob is suspended with null by the error callback and with
\* the child's exit code (null after a signal death) by the close callback;
\* and the terminal event carries the state and errorCode of the result.
C30_EvidencePreserved ==
  /\ [][\A i \in 1..Len(fin), m \in Manifests :
          (FinishJobResume(i, m) /\ ~Resolved) =>
            /\ result'[1].exitCode = fin[i].exitCode
            /\ result'[1].manifest = m
            /\ events'[Len(events')] =
                 Event(result'[1].state, Null, result'[1].errorCode)]_vars
  /\ [][Len(fin') > Len(fin) =>
          fin'[Len(fin')].exitCode =
            IF errorDelivered' # errorDelivered THEN Null ELSE child.exitCode]_vars
  /\ [][Resolved => result' = result]_vars
  /\ [](Resolved =>
          /\ result[1].exitCode = IF errorDelivered THEN Null ELSE child.exitCode
          /\ TerminalEvents[1].state = result[1].state
          /\ TerminalEvents[1].errorCode = result[1].errorCode
          /\ TerminalEvents[1].progressEvent = Null)

\* A job cancelled and timed out whose child exited 2 and left a manifest: the
\* result is cancelled and still carries the exit code and the manifest.
C30_Witness ==
  /\ Resolved /\ rec.requestedCancel /\ rec.timedOut
  /\ result[1].state = "cancelled"
  /\ result[1].exitCode = Some(2)
  /\ result[1].manifest = Some([status |-> "failed", errorCode |-> Some("E_INVALID_INPUT")])
----------------------------------------------------------------------------
\* buildPreflightPolicy of the desktop application's main process.

\* The directories in the order of the ensureDirectoryWritable calls.
PreflightDirs == <<"userData", "sessionData", "logs", "temp", "output">>

EnvKeys == {"MINERU_BACKEND", "MINERU_METHOD", "MINERU_MODEL_SOURCE", "MINERU_OUTPUT_DIR"}

REQUIRED_ENV_DEFAULTS ==
  [k \in {"MINERU_BACKEND", "MINERU_METHOD", "MINERU_MODEL_SOURCE"} |->
     IF k = "MINERU_BACKEND" THEN "pipeline"
     ELSE IF k = "MINERU_METHOD" THEN "auto" ELSE "huggingface"]

\* The env objects a caller passes: each variable unset, empty or set.
Envs == [EnvKeys -> {Null, Some(""), Some("custom")}]

\* Every failure is reported with the code of the output directory.
errorCodeOfOutputAlways(dir) == "E_OUTPUT_UNWRITABLE"

\* The errorCode argument of the ensureDirectoryWritable call made for dir.
errorCodeOf(dir) ==
  IF dir = "output" THEN "E_OUTPUT_UNWRITABLE" ELSE "E_PREFLIGHT_PATH_INVALID"

\* The loop over REQUIRED_ENV_DEFAULTS and the assignment of MINERU_OUTPUT_DIR
\* (outputDir is path.resolve(userDataDir, outputDirName)).
WriteEnv(env) ==
  [k \in EnvKeys |->
     IF k = "MINERU_OUTPUT_DIR" THEN Some("userData/output")
     ELSE IF env[k] = Null \/ env[k] = Some("") THEN Some(REQUIRED_ENV_DEFAULTS[k])
     ELSE env[k]]

\* buildPreflightPolicy(options) up to its first await.  path.resolve returns
\* an absolute path for every argument, so toAbsoluteDirectory never throws.
buildPreflightPolicy(env) ==
  /\ preflight.pc = "idle"
  /\ preflight' = [NoPreflight EXCEPT !.pc = "checking", !.env0 = Some(env), !.env = Some(env)]
  /\ UNCHANGED <<jobVars, mjobs, dup, view>>

\* One ensureDirectoryWritable call and what follows it without an await.
\* mkdirOk: fs.mkdir succeeds; probeOk: probeWriteAccess succeeds.
ensureDirectoryWritable(mkdirOk, probeOk) ==
  /\ preflight.pc = "checking"
  /\ LET dir == PreflightDirs[Len(preflight.checked) + 1]
         ok == mkdirOk /\ probeOk
         after == [preflight EXCEPT !.checked = Append(@, dir), !.passed = Append(@, ok)]
     IN IF ~ok
        THEN preflight' = [after EXCEPT !.pc = "rejected", !.error = Some(errorCodeOf(dir))]
        ELSE IF Len(after.checked) < Len(PreflightDirs)
        THEN preflight' = after
        ELSE preflight' = [after EXCEPT !.pc = "resolved",
                                        !.env = Some(WriteEnv(preflight.env[1])),
                                        !.policy = Some(WriteEnv(preflight.env[1]))]
  /\ UNCHANGED <<jobVars, mjobs, dup, view>>

NextPreflight ==
  \/ \E env \in Envs : buildPreflightPolicy(env)
  \/ \E mkdirOk, probeOk \in BOOLEAN : ensureDirectoryWritable(mkdirOk, probeOk)

SpecPreflight == Init /\ [][NextPreflight]_vars

\* C31: the directories are checked in the order userData, sessionData, logs,
\* temp, output; the call rejects at the first one that cannot be created or
\* written and checks none after it; the error's code is E_OUTPUT_UNWRITABLE
\* for the output directory and E_PREFLIGHT_PATH_INVALID for the other four;
\* and a rejected call leaves the env object as it was passed.
C31_PreflightRejectsAtFirstFailure ==
  /\ IsPrefix(preflight.checked, PreflightDirs)
  /\ Len(preflight.passed) = Len(preflight.checked)
  /\ \A i \in 1..(Len(preflight.passed) - 1) : preflight.passed[i]
  /\ preflight.pc = "rejected" <=>
       (preflight.passed # <<>> /\ ~preflight.passed[Len(preflight.passed)])
  /\ preflight.pc = "resolved" <=>
       (Len(preflight.passed) = 5 /\ preflight.passed[5])
  /\ preflight.pc = "rejected" =>
       /\ preflight.error =
            IF Len(preflight.checked) = 5 THEN Some("E_OUTPUT_UNWRITABLE")
            ELSE Some("E_PREFLIGHT_PATH_INVALID")
       /\ preflight.env = preflight.env0
       /\ preflight.policy = Null
  /\ preflight.pc # "rejected" => preflight.error = Null

\* The call rejected at the temp directory, with nothing set in the env object.
C31_Witness ==
  /\ preflight.pc = "rejected"
  /\ preflight.checked = <<"userData", "sessionData", "logs", "temp">>
  /\ preflight.error = Some("E_PREFLIGHT_PATH_INVALID")
  /\ preflight.env = Some([k \in EnvKeys |-> Null])
----------------------------------------------------------------------------
\* C32: the state and errorCode of the result are the reconciliation of the
\* exit code (or the spawn error), the manifest, requestedCancel and timedOut
\* and of nothing else, whatever the child wrote and however it was cut into
\* chunks; and a stdout chunk, malformed lines included, changes neither
\* these inputs nor anything that settles or ends the job: it only appends
\* non-terminal events and replaces the remainder.
C32_StdoutNeverDecides ==
  /\ [](Resolved =>
          LET out == Reconcile(result[1].exitCode, result[1].manifest, errorDelivered,
                               [requestedCancel |-> rec.requestedCancel,
                                timedOut |-> rec.timedOut])
          IN /\ result[1].state = out.state
             /\ result[1].errorCode = out.errorCode)
  /\ [][nChunks' # nChunks =>
          /\ rec' = [rec EXCEPT !.stdoutRemainder = rec'.stdoutRemainder,
                                !.runningEmitted = rec'.runningEmitted]
          /\ IsPrefix(events, events')
          /\ \A i \in (Len(events) + 1)..Len(events') : ~IsTerminal(events'[i])
          /\ UNCHANGED <<activeJobs, fin, timer, child, desc, kill, resolveCalls, result,
                         errorDelivered, closeDelivered, killRuns, signals>>]_vars

\* A job whose child wrote two malformed lines and exited 0 with a manifest
\* reporting success: it succeeded.
C32_Witness ==
  /\ Resolved /\ result[1].state = "succeeded"
  /\ stdoutText = <<LF, "x", LF, LF, "x", LF>>
  /\ ProgressEvents = <<>>
----------------------------------------------------------------------------
\* C33: from the step in which an exit callback settles the job on, no step
\* changes requestedCancel or timedOut or starts a terminator run; the watcher
\* is no longer armed; a cancel() call made from then on returns false; and
\* the result the promise resolves with is the reconciliation of the flags as
\* they were when the job was settled.
C33_InputsFrozenAtExitCallback ==
  /\ [][rec.settled =>
          /\ rec'.settled
          /\ rec'.requestedCancel = rec.requestedCancel
          /\ rec'.timedOut = rec.timedOut
          /\ killRuns' = killRuns]_vars
  /\ [](rec.settled => timer # "armed")
  /\ [][rec.settled /\ cancelCalls' # cancelCalls =>
          /\ lastCancel'[1].ret = FALSE
          /\ UNCHANGED <<rec, kill, child, desc, signals, events, result>>]_vars
  /\ [][\A i \in 1..Len(fin), m \in Manifests :
          (FinishJobResume(i, m) /\ ~Resolved) =>
            LET out == Reconcile(fin[i].exitCode, m, fin[i].spawnError, rec)
            IN result'[1].state = out.state /\ result'[1].errorCode = out.errorCode]_vars

\* result.json is being read for a job with a timeout that was cancelled once
\* before its child exited: a second cancel() has just been refused, the
\* watcher is disarmed, timedOut is still false and one terminator run was made.
C33_Witness ==
  /\ rec.settled /\ "job-a" \in activeJobs /\ ~Resolved /\ Len(fin) = 1
  /\ timer = "cleared"
  /\ cancelCalls = 2 /\ cancelAccepted
  /\ lastCancel = Some([jobId |-> "job-a", ret |-> FALSE])
  /\ rec.requestedCancel /\ ~rec.timedOut /\ killRuns = 1
----------------------------------------------------------------------------
\* Two run() calls with the same caller-supplied jobId on one bridge (POSIX,
\* spawn succeeding, no timeoutMs, children that write nothing).  Every handler
\* of a call closes over the jobId and its own onEvent and reaches a record by
\* activeJobs.get(jobId), which returns the record set last.

DupJobId == "job-a"

\* run() of call k; the second call is made while the map holds the first
\* call's job.  activeJobs.set replaces the entry of the id.
DupRun(k) ==
  /\ ~dup.calls[k].started
  /\ k = 2 => (dup.calls[1].started /\ dup.slot # 0)
  /\ LET queued == <<Event("queued", Null, Null)>>
         e == emitRunningOnce(DupJobId, {DupJobId}, NewActiveJob, queued)
     IN dup' = [dup EXCEPT
                  !.slot = k,
                  !.recs[k] = e.rec,
                  !.calls[k] = [@ EXCEPT !.started = TRUE, !.events = e.events,
                                         !.child = [pidValid |-> TRUE, alive |-> TRUE,
                                                    exitCode |-> Null]]]
  /\ UNCHANGED <<jobVars, mjobs, preflight, view>>

\* requestKillTree(jobId) on the bridge state D: killProcessTree gets the
\* process of the record in the map.
DupRequestKillTree(D) ==
  LET o == D.slot
  IN IF o = 0 \/ D.recs[o].settled \/ D.recs[o].killTreeRef \/ ~D.calls[o].child.alive
     THEN {D}
     ELSE {[D EXCEPT !.calls[o].child = c, !.calls[o].killing = TRUE,
                     !.recs[o].killTreeRef = TRUE] :
             c \in MultiDeliver(D.calls[o].child, "SIGTERM")}

\* cancel(jobId) accepted.
DupCancel ==
  /\ dup.slot # 0 /\ ~dup.recs[dup.slot].settled
  /\ ~dup.recs[dup.slot].requestedCancel
  /\ dup' \in DupRequestKillTree([dup EXCEPT !.recs[dup.slot].requestedCancel = TRUE])
  /\ UNCHANGED <<jobVars, mjobs, preflight, view>>

\* killProcessTree of call k's child after the sleep, and the finally callback.
DupKillTreeWake(k) ==
  /\ dup.calls[k].killing
  /\ \E c \in (IF dup.calls[k].child.exitCode # Null THEN {dup.calls[k].child}
               ELSE MultiDeliver(dup.calls[k].child, "SIGKILL")) :
       dup' = [dup EXCEPT
                 !.calls[k].child = c, !.calls[k].killing = FALSE,
                 !.recs = IF dup.slot = 0 THEN @
                          ELSE [@ EXCEPT ![dup.slot].killTreeRef = FALSE]]
  /\ UNCHANGED <<jobVars, mjobs, preflight, view>>

DupChildExit(k, code) ==
  /\ dup.calls[k].child.alive
  /\ dup' = [dup EXCEPT !.calls[k].child = [@ EXCEPT !.alive = FALSE, !.exitCode = Some(code)]]
  /\ UNCHANGED <<jobVars, mjobs, preflight, view>>

\* The close callback of call k's child: finishJob(jobId, exitCode, onEvent)
\* up to its await, activeJob being the record in the map.
DupChildClose(k) ==
  /\ dup.calls[k].started /\ ~dup.calls[k].closeDelivered /\ ~dup.calls[k].child.alive
  /\ LET closed == [dup EXCEPT !.calls[k].closeDelivered = TRUE]
     IN IF dup.slot = 0 \/ dup.recs[dup.slot].settled
        THEN dup' = closed
        ELSE dup' = [closed EXCEPT
                       !.recs[dup.slot].settled = TRUE,
                       !.calls[k].fin = Some([exitCode |-> dup.calls[k].child.exitCode,
                                              spawnError |-> FALSE, rec |-> dup.slot])]
  /\ UNCHANGED <<jobVars, mjobs, preflight, view>>

\* finishJob of call k's close callback after readResultManifest: the event
\* goes to call k's onEvent, the entry of the id is deleted and the promise of
\* the record finishJob holds is resolved.  child: whose exit the result reports.
DupFinishJobResume(k, requestManifest) ==
  /\ dup.calls[k].fin # Null
  /\ LET f == dup.calls[k].fin[1]
         out == Reconcile(f.exitCode, requestManifest, f.spawnError, dup.recs[f.rec])
         res == Some([jobId |-> DupJobId, state |-> out.state, exitCode |-> f.exitCode,
                      errorCode |-> out.errorCode, manifest |-> requestManifest,
                      child |-> k])
         emitted == [dup EXCEPT
                       !.calls[k].events = Append(@, Event(out.state, Null, out.errorCode)),
                       !.calls[k].fin = Null,
                       !.slot = 0]
     IN dup' = [emitted EXCEPT
                  !.calls[f.rec].result = IF @ = Null THEN res ELSE @]
  /\ UNCHANGED <<jobVars, mjobs, preflight, view>>

\* The children exit with 0 or 2; result.json is missing or reports success.
NextDup ==
  \/ \E k \in DupCalls : DupRun(k)
  \/ DupCancel
  \/ \E k \in DupCalls : DupKillTreeWake(k)
  \/ \E k \in DupCalls, code \in {0, 2} : DupChildExit(k, code)
  \/ \E k \in DupCalls : DupChildClose(k)
  \/ \E k \in DupCalls, m \in {Null, Some([status |-> "succeeded", errorCode |-> Null])} :
       DupFinishJobResume(k, m)

SpecDup == Init /\ [][NextDup]_vars

\* C34: when run() is called with the jobId of a job still in the active map,
\* neither job receives more than one terminal event, a result promise
\* resolves only with the outcome of its own child's exit, and once both
\* children have closed and every continuation has run each job has received
\* its terminal event and each promise is resolved.
C34_DuplicateIdUndisturbed ==
  LET terminal(k) == SelectSeq(dup.calls[k].events, IsTerminal)
      quiet == \A k \in DupCalls :
                 /\ dup.calls[k].started /\ dup.calls[k].closeDelivered
                 /\ dup.calls[k].fin = Null /\ ~dup.calls[k].killing
  IN \A k \in DupCalls :
       /\ Len(terminal(k)) <= 1
       /\ dup.calls[k].result # Null =>
            /\ dup.calls[k].result[1].child = k
            /\ dup.calls[k].result[1].exitCode = dup.calls[k].child.exitCode
       /\ quiet => (Len(terminal(k)) = 1 /\ dup.calls[k].result # Null)
----------------------------------------------------------------------------
\* C35: once the job's result promise has resolved, no step delivers a signal
\* to the child's pid or process group; a terminator run that is in its
\* grace window at that moment ends without its SIGKILL reaching a process.
C35_NoSignalAfterResolve ==
  [][(Resolved /\ signals' # signals) => ~signals'[Len(signals')].sent]_vars
----------------------------------------------------------------------------
\* The lifecycle for every kind of timeoutMs: omitted or null, zero, negative,
\* positive.  The child writes nothing and spawns nothing.
WatcherRequests ==
  {RequestOf(Some(j), t) : j \in RunJobIds, t \in TimeoutInputs \cup {Some(0 - 5)}}

WatcherRun == \E req \in WatcherRequests, u \in UUIDs, ok \in BOOLEAN : run(req, u, ok)

NextWatcher ==
  \/ WatcherRun
  \/ \E j \in RunJobIds : cancel(j)
  \/ TimeoutFire
  \/ \E code \in ExitCodes : ChildExit(code)
  \/ ChildError
  \/ ChildClose
  \/ ManifestRead
  \/ KillTreeWake
  \/ TaskkillClose

SpecWatcher == Init /\ [][NextWatcher]_vars

\* C36: for a job started with timeoutMs omitted, null, zero or negative no
\* watcher is armed, timedOut is false in every state, and every terminator
\* run is started by an accepted cancel() call.
C36_NoWatcherWithoutPositiveTimeout ==
  /\ []((request # Null /\ request[1].timeoutMs \in {Null, Some(0), Some(0 - 5)}) =>
          /\ timer = "none" /\ timerDue = Null
          /\ ~rec.timeoutRef /\ ~rec.timedOut)
  /\ [][(request # Null /\ request[1].timeoutMs \in {Null, Some(0), Some(0 - 5)}
          /\ killRuns' # killRuns) =>
          (cancelCalls' # cancelCalls /\ lastCancel'[1].ret)]_vars

\* A job started with a negative timeoutMs, cancelled, whose child then
\* exited: one terminator run, no timeout recorded, result cancelled.
C36_Witness ==
  /\ request # Null /\ request[1].timeoutMs = Some(0 - 5)
  /\ Resolved /\ result[1].state = "cancelled"
  /\ cancelAccepted /\ killRuns = 1 /\ ~rec.timedOut /\ timer = "none"
----------------------------------------------------------------------------
\* C37: in every state, before and after the child's exit and the job's
\* resolution, the progress events are those of the lines of the child's
\* output that a line feed ended; the text after the last line feed has
\* produced none even when it is well-formed JSON, and no step other than a
\* stdout chunk adds a progress event.
C37_RemainderNeverFlushed ==
  /\ [](started => ProgressEvents = ExpectedEvents(stdoutText))
  /\ [][nChunks' = nChunks => ProgressEvents' = ProgressEvents]_vars
  /\ [](Resolved => rec.stdoutRemainder = UnfinishedLine(stdoutText))

\* The child wrote a line and then a complete JSON record without a line
\* break, and exited: the resolved job has the event of the line only.
C37_Witness ==
  /\ Resolved /\ result[1].state = "succeeded"
  /\ stdoutText = <<"1", CR, LF, "2">>
  /\ rec.stdoutRemainder = <<"2">>
  /\ Len(ProgressEvents) = 1 /\ ProgressEvents[1].progressEvent = Some(<<"1">>)
  /\ IsTerminal(events[Len(events)])
----------------------------------------------------------------------------
\* The renderer of the desktop application and the IPC_RUN_JOB handler of the
\* main process.  Job events travel in the order they were sent; the reply of
\* an invoke travels on its own and may overtake or be overtaken by them.

\* Number of clicks on the run button.
MaxRuns == 2

\* runButton click handler up to its await.
RunClick ==
  /\ view.runningJobId = Null
  /\ view.jobs + view.invokes < MaxRuns
  /\ view' = [view EXCEPT !.terminalState = Null, !.invokes = @ + 1]
  /\ UNCHANGED <<jobVars, mjobs, preflight, dup>>

\* IPC_RUN_JOB handler: engineBridge.run emits queued and running to the
\* sender, and the handler returns the job's id.
MainRunJob ==
  /\ view.invokes > 0
  /\ LET jobId == view.jobs + 1
     IN view' = [view EXCEPT
                   !.invokes = @ - 1,
                   !.jobs = jobId,
                   !.jobEvents = @ \o <<[jobId |-> jobId, state |-> "queued"],
                                        [jobId |-> jobId, state |-> "running"]>>,
                   !.replies = Append(@, jobId)]
  /\ UNCHANGED <<jobVars, mjobs, preflight, dup>>

\* The onEvent callback of a job's run() in the main process, called with the
\* terminal event.
MainTerminalEvent(jobId, state) ==
  /\ jobId \in 1..view.jobs /\ jobId \notin view.ended
  /\ view' = [view EXCEPT !.ended = @ \cup {jobId},
                          !.jobEvents = Append(@, [jobId |-> jobId, state |-> state])]
  /\ UNCHANGED <<jobVars, mjobs, preflight, dup>>

\* The onJobEvent handler: the renderer's variables after it.
onJobEvent(jobEvent) ==
  IF view.runningJobId # Null /\ jobEvent.jobId # view.runningJobId[1]
  THEN view
  ELSE IF IsTerminal(jobEvent)
  THEN [view EXCEPT !.terminalState = Some(jobEvent.state), !.runningJobId = Null]
  ELSE view

\* The oldest job event in flight is delivered.
JobEventDelivered ==
  /\ view.jobEvents # <<>>
  /\ LET jobEvent == Head(view.jobEvents)
     IN view' = [onJobEvent(jobEvent) EXCEPT
                   !.jobEvents = Tail(view.jobEvents),
                   !.terminalDelivered =
                      IF IsTerminal(jobEvent) THEN @ \cup {jobEvent.jobId} ELSE @]
  /\ UNCHANGED <<jobVars, mjobs, preflight, dup>>

\* runButton click handler after its await: the reply of runJob has arrived.
RunReplyDelivered ==
  /\ view.replies # <<>>
  /\ view' = [view EXCEPT !.runningJobId = Some(Head(view.replies)),
                          !.replies = Tail(@)]
  /\ UNCHANGED <<jobVars, mjobs, preflight, dup>>

NextView ==
  \/ RunClick
  \/ MainRunJob
  \/ \E j \in 1..MaxRuns, s \in TerminalStates : MainTerminalEvent(j, s)
  \/ JobEventDelivered
  \/ RunReplyDelivered

SpecView == Init /\ [][NextView]_vars

\* C38: in every delivery order, the renderer is not in the running state for
\* a job whose terminal event it has already received.
C38_ViewLeavesRunningState ==
  view.runningJobId # Null => view.runningJobId[1] \notin view.terminalDelivered
====
